---- MODULE Spec2Model ----
(***************************************************************************)
(* Grounded composition pipeline of the Uniguru-LM composer:               *)
(*   server/composer/compose.py      Composer.compose (orchestrator)       *)
(*   server/composer/rl_policy.py    RLPolicy, calculate_reward            *)
(*   server/composer/grounding.py    GroundingVerifier                     *)
(*   server/composer/templates.py    TemplateEngine                        *)
(*                                                                         *)
(* Representation.  A text is the set of its lower-cased words; a word is  *)
(* a string.  Devanagari words are written as ASCII names "dv_..."; only   *)
(* their script and their identity matter to the code modelled here.       *)
(* Scores and rewards are fixed-point integers in thousandths (1000 = 1.0),*)
(* Q-values in hundred-thousandths, epsilon in millionths; divisions round *)
(* down.                                                                   *)
(***************************************************************************)
EXTENDS Integers, Sequences, FiniteSets, TLC

(***************************************************************************)
(* Bounds of the model.                                                    *)
(***************************************************************************)
MaxRequests == 2      \* compose calls made one after the other (Spec)
NumThreads == 2       \* threads sharing the policy instance (SpecConc)
MaxPolicyCalls == 4   \* calls made on the policy object (SpecPolicy)
LongGood == 80        \* compositions of a long run of good outcomes (SpecPolicy)
LongPoor == 125       \* compositions of a long run of poor outcomes (SpecPolicy)
MaxChunks == 3        \* chunks of a verify_grounding call (SpecFunctions)

(***************************************************************************)
(* Program constants.                                                      *)
(***************************************************************************)
max_grounding_attempts == 3
min_tokens == 3
min_overlap_ratio == 300          \* 0.3
learning_rate_inv == 100          \* learning_rate = 0.01 = 1 / 100
experience_buffer_size == 1000
epsilon_default == 100000         \* 0.1 in millionths
epsilon_floor == 50000            \* 0.05
epsilon_ceiling == 300000         \* 0.3
save_period == 10
history_maxlen == 1000

Min2(a, b) == IF a < b THEN a ELSE b
Max2(a, b) == IF a > b THEN a ELSE b

PolicyAction == {"explain", "compare", "example", "extractive"}

(***************************************************************************)
(* Vocabulary.                                                             *)
(***************************************************************************)
stopwords_EN ==
  {"a", "an", "the", "is", "are", "was", "were", "be", "been", "being",
   "have", "has", "had", "do", "does", "did", "will", "would", "could",
   "should", "may", "might", "can", "must", "shall", "to", "of", "in",
   "for", "on", "with", "by", "from", "as", "at", "or", "and", "but",
   "if", "then", "than", "when", "where", "why", "how", "what", "which",
   "who", "whom", "whose", "this", "that", "these", "those", "i", "you",
   "he", "she", "it", "we", "they", "me", "him", "her", "us", "them"}

\* The Hindi stopwords that occur in the vocabulary of the model.
stopwords_HI ==
  {"dv_06", "dv_09", "dv_13", "dv_14", "dv_15", "dv_16", "dv_26", "dv_27",
   "dv_40", "dv_42", "dv_43", "dv_76", "dv_86", "dv_92"}

\* Fixed words of each rendered template: the words of the pattern and of
\* the generated body, insight, synthesis and principle sentences.
explain_en ==
  {"and", "application", "appreciate", "as", "based", "citations", "concept",
   "detail", "detailed", "explain", "helps", "in", "insights", "into", "let",
   "matter", "me", "mentioned", "need", "of", "on", "practical", "provide",
   "recognize", "sacred", "scriptures", "significance", "texts", "that",
   "the", "this", "thoroughly", "to", "understand", "understanding", "us",
   "we", "wisdom"}

compare_en ==
  {"a", "according", "all", "and", "at", "becomes", "better", "both",
   "citations", "clear", "compare", "comprehensive", "contemporary",
   "different", "insights", "interpretations", "it", "lets", "looking",
   "offer", "perspectives", "provide", "scriptures", "show", "texts", "that",
   "the", "this", "to", "together", "traditional", "understand",
   "understanding", "us", "valuable"}

example_en ==
  {"applies", "are", "can", "citations", "daily", "demonstrate", "examples",
   "for", "fundamental", "here", "how", "illustrative", "importance", "in",
   "instance", "life", "numerous", "observe", "of", "practical", "principle",
   "sacred", "some", "teachings", "tell", "that", "the", "there", "these",
   "this", "us", "we"}

extractive_en == {"according", "additional", "citations", "references", "to"}

explain_hi ==
  {"dv_01", "dv_02", "dv_03", "dv_04", "dv_05", "dv_06", "dv_07", "dv_08",
   "dv_09", "dv_10", "dv_11", "dv_12", "dv_13", "dv_14", "dv_15", "dv_16",
   "dv_17", "dv_18", "dv_19", "dv_20", "dv_21", "dv_22", "dv_23", "dv_24",
   "dv_25", "dv_26", "dv_27", "dv_28", "dv_29", "dv_30", "dv_31", "dv_32",
   "dv_33", "dv_34", "dv_35", "dv_36", "dv_37", "dv_38", "dv_39", "dv_40",
   "dv_41", "dv_42", "dv_43", "dv_44", "dv_45"}

compare_hi ==
  {"dv_46", "dv_02", "dv_04", "dv_47", "dv_48", "dv_49", "dv_09", "dv_50",
   "dv_51", "dv_13", "dv_14", "dv_15", "dv_16", "dv_52", "dv_53", "dv_54",
   "dv_55", "dv_56", "dv_57", "dv_58", "dv_59", "dv_60", "dv_61", "dv_62",
   "dv_26", "dv_27", "dv_28", "dv_30", "dv_63", "dv_35", "dv_36", "dv_64",
   "dv_65", "dv_37", "dv_66", "dv_67", "dv_68", "dv_41", "dv_69", "dv_42",
   "dv_43", "dv_70", "dv_71", "dv_45"}

example_hi ==
  {"dv_72", "dv_73", "dv_74", "dv_12", "dv_13", "dv_75", "dv_15", "dv_76",
   "dv_16", "dv_77", "dv_78", "dv_79", "dv_80", "dv_22", "dv_81", "dv_82",
   "dv_24", "dv_83", "dv_84", "dv_26", "dv_27", "dv_85", "dv_86", "dv_87",
   "dv_88", "dv_34", "dv_89", "dv_36", "dv_90", "dv_91", "dv_92", "dv_41",
   "dv_42", "dv_43", "dv_70", "dv_71", "dv_45"}

extractive_hi == {"dv_93", "dv_02", "dv_15", "dv_36"}

DevanagariWords == explain_hi \cup compare_hi \cup example_hi \cup extractive_hi

\* The template table: language -> strategy -> template id.
TemplateLangs == {"EN", "HI"}

templates ==
  [l \in TemplateLangs |->
     [k \in PolicyAction |->
        IF l = "EN"
        THEN CASE k = "explain" -> "explain_en"
               [] k = "compare" -> "compare_en"
               [] k = "example" -> "example_en"
               [] OTHER -> "extractive_en"
        ELSE CASE k = "explain" -> "explain_hi"
               [] k = "compare" -> "compare_hi"
               [] k = "example" -> "example_hi"
               [] OTHER -> "extractive_hi"]]

TemplateIds ==
  {"explain_en", "compare_en", "example_en", "extractive_en",
   "explain_hi", "compare_hi", "example_hi", "extractive_hi"}

\* The strategy named in a template id ('compare' in template_id, ...).
TemplateKind(id) ==
  CASE id \in {"explain_en", "explain_hi"} -> "explain"
    [] id \in {"compare_en", "compare_hi"} -> "compare"
    [] id \in {"example_en", "example_hi"} -> "example"
    [] OTHER -> "extractive"

\* The fixed words of the pattern of a template.
TemplatePattern(id) ==
  CASE id = "explain_en" -> explain_en
    [] id = "compare_en" -> compare_en
    [] id = "example_en" -> example_en
    [] id = "extractive_en" -> extractive_en
    [] id = "explain_hi" -> explain_hi
    [] id = "compare_hi" -> compare_hi
    [] id = "example_hi" -> example_hi
    [] OTHER -> extractive_hi

(***************************************************************************)
(* Request inputs.  An answer is its words and its length in characters; a *)
(* chunk is the words of its text and of its source name; text_none marks  *)
(* a chunk dictionary whose 'text' entry is None.  Chunk texts are shorter *)
(* than 150 characters, so that a quote is the whole text.                 *)
(***************************************************************************)
Answer(words, n) == [text |-> words, len |-> n]
Chunk(words, src) == [text |-> words, text_none |-> FALSE, source |-> src]

\* ""
A_empty == Answer({}, 0)
\* "Meditation is a spiritual practice that brings peace and wisdom."
A_meditation ==
  Answer({"meditation", "is", "a", "spiritual", "practice", "that", "brings",
          "peace", "and", "wisdom"}, 64)
\* "Cooking recipes involve various ingredients."
A_cooking == Answer({"cooking", "recipes", "involve", "various", "ingredients"}, 44)
\* "compare karma versus dharma"
A_compare == Answer({"compare", "karma", "versus", "dharma"}, 27)
\* "like karma"
A_like == Answer({"like", "karma"}, 10)

\* "Meditation is a spiritual practice that brings inner peace and wisdom."
K_meditation ==
  Chunk({"meditation", "is", "a", "spiritual", "practice", "that", "brings",
         "inner", "peace", "and", "wisdom"}, {"gita"})
\* "Yoga brings peace and knowledge."
K_yoga == Chunk({"yoga", "brings", "peace", "and", "knowledge"}, {"sutras"})
\* a chunk with text ''
K_blank == Chunk({}, {"notes"})
\* a chunk {'text': None, 'source': 'notes'}
K_none == [text |-> {}, text_none |-> TRUE, source |-> {"notes"}]

Request(a, ks, l) == [extractive_answer |-> a, top_chunks |-> ks, lang |-> l]

Requests ==
  { Request(A_meditation, <<K_meditation>>, "EN"),
    Request(A_meditation, <<K_meditation, K_yoga>>, "EN"),
    Request(A_cooking, <<K_blank>>, "EN"),
    Request(A_cooking, <<K_meditation>>, "HI"),
    Request(A_cooking, <<K_meditation>>, "FR"),
    Request(A_compare, <<K_meditation>>, "EN"),
    Request(A_like, <<K_meditation>>, "EN"),
    Request(A_cooking, <<K_none>>, "EN"),
    Request(A_empty, << >>, "EN"),
    Request(A_meditation, << >>, "EN") }

\* The caller numbers its requests: the n-th call carries trace id n.
TraceIds(n) == {n}

\* top_chunks[:n]
Take(ks, n) == SubSeq(ks, 1, Min2(n, Len(ks)))
\* top_chunks[1:3]
Secondary(ks) == SubSeq(ks, 2, Min2(3, Len(ks)))
SeqRange(s) == {s[i] : i \in DOMAIN s}
\* Variants that keep the tokens of one member only: any member, a largest.
AnyOf(S) == IF S = {} THEN {} ELSE CHOOSE x \in S : TRUE
LargestOf(S) ==
  IF S = {} THEN {} ELSE CHOOSE x \in S : \A y \in S : Cardinality(y) <= Cardinality(x)
UnionOf(S) == UNION S

(***************************************************************************)
(* GroundingVerifier (grounding.py).                                       *)
(***************************************************************************)
_contains_devanagari(words) == \E w \in words : w \in DevanagariWords

\* Devanagari runs if the text has any, Latin words otherwise; words of one
\* character are dropped.
_tokenize_text(text) ==
  LET script == IF _contains_devanagari(text)
                THEN {w \in text : w \in DevanagariWords}
                ELSE {w \in text : w \notin DevanagariWords}
  IN {w \in script : Len(w) > 1}

_filter_content_tokens(tokens) ==
  LET stopwords == IF \E t \in tokens : _contains_devanagari({t})
                   THEN stopwords_HI ELSE stopwords_EN
  IN {t \in tokens : t \notin stopwords}

ContentTokens(text) == _filter_content_tokens(_tokenize_text(text))

spiritual_concepts ==
  {"dharma", "karma", "moksha", "yoga", "meditation", "wisdom", "truth",
   "knowledge", "devotion", "compassion", "enlightenment", "consciousness",
   "soul", "spirit", "divine", "sacred", "holy", "transcendence",
   "liberation"}

\* Words that the inputs and the templates write with a capital letter.
CapitalisedWords ==
  {"meditation", "cooking", "yoga", "gita", "sutras", "notes", "based",
   "let", "as", "this", "citations", "according", "additional", "sources"}

_extract_concepts(text) ==
  (text \cap spiritual_concepts)
    \cup (IF {"inner", "peace"} \subseteq text THEN {"inner peace"} ELSE {})
    \cup (text \cap CapitalisedWords)

\* Thousandths; 500 is the neutral score of the handler and of a text
\* without concepts.
_check_semantic_grounding(generated_text, top_chunks) ==
  LET generated_concepts == _extract_concepts(generated_text)
      total_concepts == Cardinality(generated_concepts)
      top == Take(top_chunks, 3)
      hits(i) == Cardinality(generated_concepts \cap _extract_concepts(top[i].text))
      RECURSIVE sum(_)
      sum(i) == IF i = 0 THEN 0 ELSE hits(i) + sum(i - 1)
  IN IF total_concepts = 0 THEN 500
     ELSE IF \E i \in DOMAIN top : top[i].text_none THEN 500
     ELSE Min2(1000, (1000 * sum(Len(top))) \div (3 * total_concepts))

\* A variant without the clamp.
_calculate_grounding_score_unclamped(overlap_count, content_count, chunk_overlaps) ==
  LET covered_chunks ==
        Cardinality({i \in DOMAIN chunk_overlaps : chunk_overlaps[i].overlap_count > 0})
  IN IF chunk_overlaps = << >> THEN 0
     ELSE Min2(1000, (overlap_count * 10000) \div (content_count * 3))
          + (IF overlap_count >= min_tokens THEN 200 ELSE 0)
          + (IF covered_chunks > 1 THEN Min2(200, (covered_chunks - 1) * 100) ELSE 0)
          - (IF overlap_count * 10 < content_count THEN 300 ELSE 0)

_calculate_grounding_score(overlap_count, content_count, chunk_overlaps) ==
  LET base_score == Min2(1000, (overlap_count * 10000) \div (content_count * 3))
      token_bonus == IF overlap_count >= min_tokens THEN 200 ELSE 0
      covered_chunks ==
        Cardinality({i \in DOMAIN chunk_overlaps : chunk_overlaps[i].overlap_count > 0})
      coverage_bonus == IF covered_chunks > 1
                        THEN Min2(200, (covered_chunks - 1) * 100) ELSE 0
      penalty == IF overlap_count * 10 < content_count THEN 300 ELSE 0
      final_score == base_score + token_bonus + coverage_bonus - penalty
  IN IF chunk_overlaps = << >> THEN 0 ELSE Max2(0, Min2(1000, final_score))

\* A variant with the neutral score 0.5.
EmptyGroundingNeutral(msg) ==
  [grounded |-> FALSE, score |-> 500, overlapping_tokens |-> {},
   overlap_count |-> 0, content_tokens_count |-> 0, overlap_ratio |-> 0,
   chunk_coverage |-> << >>, error |-> msg]

EmptyGrounding(msg) ==
  [grounded |-> FALSE, score |-> 0, overlapping_tokens |-> {},
   overlap_count |-> 0, content_tokens_count |-> 0, overlap_ratio |-> 0,
   chunk_coverage |-> << >>, error |-> msg]

\* The entries of chunk_coverage: chunks without text are skipped.
RECURSIVE ChunkOverlaps(_, _, _)
ChunkOverlaps(content_tokens, top_chunks, i) ==
  IF i > Len(top_chunks) THEN << >>
  ELSE LET chunk == top_chunks[i]
           rest == ChunkOverlaps(content_tokens, top_chunks, i + 1)
       IN IF chunk.text_none \/ chunk.text = {} THEN rest
          ELSE LET overlap == content_tokens \cap ContentTokens(chunk.text)
               IN <<[chunk_id |-> i - 1,
                     overlapping_tokens |-> overlap,
                     overlap_count |-> Cardinality(overlap)]>> \o rest

verify_grounding(generated_text, top_chunks) ==
  LET content_tokens == ContentTokens(generated_text)
      chunk_overlaps == ChunkOverlaps(content_tokens, top_chunks, 1)
      all_overlapping_tokens ==
        UnionOf({chunk_overlaps[i].overlapping_tokens : i \in DOMAIN chunk_overlaps})
      total_overlap_count == Cardinality(all_overlapping_tokens)
      content_count == Cardinality(content_tokens)
      grounding_score ==
        _calculate_grounding_score(total_overlap_count, content_count, chunk_overlaps)
      is_grounded == /\ total_overlap_count >= min_tokens
                     /\ total_overlap_count * 1000 >= min_overlap_ratio * content_count
      semantic_score == _check_semantic_grounding(generated_text, top_chunks)
  IN IF generated_text = {} \/ top_chunks = << >> THEN EmptyGrounding("Empty input")
     ELSE IF content_tokens = {} THEN EmptyGrounding("No content tokens found")
     ELSE [grounded |-> is_grounded,
           score |-> (grounding_score * 7 + semantic_score * 3) \div 10,
           overlapping_tokens |-> all_overlapping_tokens,
           overlap_count |-> total_overlap_count,
           content_tokens_count |-> content_count,
           overlap_ratio |-> (total_overlap_count * 1000) \div content_count,
           chunk_coverage |-> chunk_overlaps,
           error |-> ""]

\* The words of " This relates to concepts like ...".
ClarificationWords == {"this", "relates", "to", "concepts", "like"}

\* list(missing_tokens)[:3]: three of the content tokens of the first two
\* chunks that are not content tokens of the text, in the iteration order
\* of a set, which is not fixed.
important_tokens(generated_text, top_chunks) ==
  LET top == Take(top_chunks, 2)
      source_tokens == UnionOf({ContentTokens(top[i].text) : i \in DOMAIN top})
      missing_tokens == source_tokens \ ContentTokens(generated_text)
      n == Min2(3, Cardinality(missing_tokens))
  IN {S \in SUBSET missing_tokens : Cardinality(S) = n}

\* The texts improve_grounding can return: the text with the clarification
\* that names the important tokens.
improve_grounding(generated_text, top_chunks) ==
  LET top == Take(top_chunks, 2)
  IN IF verify_grounding(generated_text, top_chunks).grounded THEN {generated_text}
     ELSE IF \E i \in DOMAIN top : top[i].text_none THEN {generated_text}
     ELSE {generated_text \cup (IF named = {} THEN {} ELSE ClarificationWords \cup named) :
             named \in important_tokens(generated_text, top_chunks)}

(***************************************************************************)
(* TemplateEngine (templates.py) and the text stages of the pipeline.      *)
(***************************************************************************)
\* self.templates.get(lang, self.templates["EN"])
LangTemplates(lang) == IF lang \in DOMAIN templates THEN templates[lang] ELSE templates["EN"]

get_explain_template(lang) == LangTemplates(lang)["explain"]
get_compare_template(lang) == LangTemplates(lang)["compare"]
get_example_template(lang) == LangTemplates(lang)["example"]

\* self.templates[lang][TemplateType.EXTRACTIVE]: a KeyError for a language
\* without a template table.
get_extractive_fallback_raises(lang) == lang \notin DOMAIN templates
get_extractive_fallback(lang) == templates[lang]["extractive"]

explain_keywords == {"what", "how", "why", "explain", "meaning", "definition"}
compare_keywords == {"different", "compare", "versus", "vs", "difference", "contrast"}
example_keywords == {"example", "instance", "like"}

\* Twice the keyword score: a keyword of the answer counts 1, a keyword of
\* the text of the first three chunks 0.5.
KeywordScore(keywords, answer, top_chunks) ==
  LET top == Take(top_chunks, 3)
      chunk_text == UnionOf({top[i].text : i \in DOMAIN top})
  IN 2 * Cardinality(keywords \cap answer.text) + Cardinality(keywords \cap chunk_text)

_analyze_content_for_template(extractive_answer, top_chunks) ==
  LET explain_score == KeywordScore(explain_keywords, extractive_answer, top_chunks)
      compare_score == KeywordScore(compare_keywords, extractive_answer, top_chunks)
      example_score == KeywordScore(example_keywords, extractive_answer, top_chunks)
      max_score == Max2(explain_score, Max2(compare_score, example_score))
  IN IF max_score > 0
     THEN IF explain_score = max_score THEN "explain"
          ELSE IF compare_score = max_score THEN "compare"
          ELSE "example"
     ELSE "explain"

\* The join of the chunk texts fails on a text that is None; the handler
\* then looks the extractive template up without a default language.
select_template_raises(top_chunks, lang) ==
  /\ \E i \in DOMAIN Take(top_chunks, 3) : top_chunks[i].text_none
  /\ lang \notin DOMAIN templates

select_template(extractive_answer, top_chunks, lang) ==
  IF \E i \in DOMAIN Take(top_chunks, 3) : top_chunks[i].text_none
  THEN templates[lang]["extractive"]
  ELSE LangTemplates(lang)[_analyze_content_for_template(extractive_answer, top_chunks)]

_is_template_suitable(template_id, extractive_answer, top_chunks) ==
  LET answer_length == extractive_answer.len
      chunk_count == Len(top_chunks)
  IN IF TemplateKind(template_id) = "compare" /\ chunk_count < 2 THEN FALSE
     ELSE IF TemplateKind(template_id) = "example" /\ answer_length < 30 THEN FALSE
     ELSE TRUE

\* The words of "{answer}\n\nSources: {sources}".
MinimalText(extractive_answer, top_chunks) ==
  LET top == Take(top_chunks, 3)
  IN extractive_answer.text \cup {"sources"} \cup UnionOf({top[i].source : i \in DOMAIN top})

\* _prepare_template_variables takes len() of the text of the first three
\* chunks.
TemplateFails(top_chunks) == \E i \in DOMAIN Take(top_chunks, 3) : top_chunks[i].text_none

apply_template(template_id, extractive_answer, top_chunks, lang) ==
  LET top == Take(top_chunks, 3)
      second == Secondary(top_chunks)
      kind == TemplateKind(template_id)
      citations == UnionOf({top[i].source : i \in DOMAIN top})
      primary == IF kind \in {"explain", "extractive"} /\ top_chunks # << >>
                 THEN top_chunks[1].source \cup top_chunks[1].text ELSE {}
      secondary_quotes ==
        IF kind = "extractive"
        THEN UnionOf({second[i].source \cup second[i].text : i \in DOMAIN second})
        ELSE {}
  IN IF TemplateFails(top_chunks) THEN MinimalText(extractive_answer, top_chunks)
     ELSE TemplatePattern(template_id) \cup extractive_answer.text
            \cup primary \cup secondary_quotes \cup citations

\* NGramScorer.smooth_text replaces a trigram that shares two words with a
\* trigram of its table by that trigram.  On a set of words this is the
\* loss of one word and the gain of another; which trigrams match depends
\* on the word order, so the rewrite is a choice among those of the table.
SmoothRewrites ==
  { [lost |-> {}, gained |-> {}],
    [lost |-> {"teachings"}, gained |-> {"texts"}],     \* (the, sacred, texts)
    [lost |-> {"detail"}, gained |-> {"contrast"}] }    \* (in, contrast, to)

smooth_text(text, rewrite) ==
  IF rewrite.lost \subseteq text THEN (text \ rewrite.lost) \cup rewrite.gained ELSE text

\* GRUStub.enhance_text on an available model: connectors are put before
\* the sentences; the extraction of key concepts fails on a text that is
\* None and the text is then returned as it was.
ConnectorWords == {"moreover", "in", "conclusion"}

_try_gru_enhancement(text, top_chunks, available) ==
  IF ~available THEN text
  ELSE IF \E i \in DOMAIN Take(top_chunks, 3) : top_chunks[i].text_none THEN text
  ELSE text \cup ConnectorWords

\* Composer._extract_citations takes len() of the text of the first three
\* chunks and has no handler.
_extract_citations_raises(top_chunks) ==
  \E i \in DOMAIN Take(top_chunks, 3) : top_chunks[i].text_none

_extract_citations(top_chunks) ==
  LET top == Take(top_chunks, 3)
  IN [i \in DOMAIN top |-> [id |-> i, source |-> top[i].source, text_preview |-> top[i].text]]

(***************************************************************************)
(* RLPolicy (rl_policy.py).  The policy object is a record; q_values maps  *)
(* a context key to the sequence of its (action, q) entries in insertion   *)
(* order, action_counts maps (context key, action) pairs to counts.  An    *)
(* absent entry reads as 0 (defaultdict).                                  *)
(***************************************************************************)
_extract_context_key(context) ==
  LET extractive_length == context.extractive_answer.len
      chunk_count == Len(context.top_chunks)
      length_cat == IF extractive_length < 50 THEN "short"
                    ELSE IF extractive_length < 150 THEN "medium" ELSE "long"
      chunk_cat == IF chunk_count <= 1 THEN "single"
                   ELSE IF chunk_count <= 3 THEN "few" ELSE "many"
  IN <<context.lang, length_cat, chunk_cat>>

QIndex(q_values, context_key, action) ==
  IF context_key \notin DOMAIN q_values THEN 0
  ELSE LET row == q_values[context_key]
           hits == {i \in DOMAIN row : row[i].action = action}
       IN IF hits = {} THEN 0 ELSE CHOOSE i \in hits : TRUE

QValue(q_values, context_key, action) ==
  LET i == QIndex(q_values, context_key, action)
  IN IF i = 0 THEN 0 ELSE q_values[context_key][i].q

\* q_values[context_key][action] = q, the entry is appended when absent.
QStore(q_values, context_key, action, q) ==
  LET i == QIndex(q_values, context_key, action)
      row == IF context_key \in DOMAIN q_values THEN q_values[context_key] ELSE << >>
      row2 == IF i = 0 THEN Append(row, [action |-> action, q |-> q])
              ELSE [row EXCEPT ![i].q = q]
  IN [k \in DOMAIN q_values \cup {context_key} |->
        IF k = context_key THEN row2 ELSE q_values[k]]

\* A read q_values[context_key][action] of the defaultdict creates the entry.
QTouch(q_values, context_key, action) ==
  QStore(q_values, context_key, action, QValue(q_values, context_key, action))

CountValue(action_counts, context_key, action) ==
  IF <<context_key, action>> \in DOMAIN action_counts
  THEN action_counts[<<context_key, action>>] ELSE 0

CountStore(action_counts, context_key, action, n) ==
  [k \in DOMAIN action_counts \cup {<<context_key, action>>} |->
     IF k = <<context_key, action>> THEN n ELSE action_counts[k]]

\* A variant that returns the entry recorded last.
_get_best_action_newest(q_values, context_key) ==
  IF context_key \in DOMAIN q_values /\ q_values[context_key] # << >>
  THEN q_values[context_key][Len(q_values[context_key])].action
  ELSE "explain"

\* A variant without the default: the best action of an unknown context is
\* the last member of PolicyAction.
_get_best_action_last(q_values, context_key) ==
  IF context_key \in DOMAIN q_values /\ q_values[context_key] # << >>
  THEN LET row == q_values[context_key]
           best == {i \in DOMAIN row : \A j \in DOMAIN row : row[j].q <= row[i].q}
       IN row[CHOOSE i \in best : \A j \in best : i <= j].action
  ELSE "extractive"

\* The first entry with the highest Q-value, EXPLAIN for an unknown context.
_get_best_action(q_values, context_key) ==
  IF context_key \notin DOMAIN q_values THEN "explain"
  ELSE LET row == q_values[context_key]
           best == {i \in DOMAIN row :
                      /\ \A j \in DOMAIN row : row[j].q <= row[i].q
                      /\ \A j \in DOMAIN row : j < i => row[j].q < row[i].q}
       IN IF row = << >> THEN "explain" ELSE row[CHOOSE i \in best : TRUE].action

\* explore stands for random.random() < epsilon, choice for random.choice.
select_action(policy, context, explore, choice) ==
  LET context_key == _extract_context_key(context)
      action == IF explore THEN choice ELSE _get_best_action(policy.q_values, context_key)
      selection_method == IF explore THEN "exploration" ELSE "exploitation"
      count == CountValue(policy.action_counts, context_key, action) + 1
      q_values == QTouch(policy.q_values, context_key, action)
  IN [action |-> action,
      metadata |-> [action |-> action,
                    context_key |-> context_key,
                    selection_method |-> selection_method,
                    q_value |-> QValue(q_values, context_key, action),
                    action_count |-> count,
                    epsilon |-> policy.epsilon],
      policy |-> [policy EXCEPT
                    !.action_counts = CountStore(@, context_key, action, count),
                    !.total_actions = @ + 1,
                    !.q_values = q_values]]

\* A history that records nothing.
HistoryKeep(history, x, is_deque) == history

\* A deque(maxlen=1000) drops its oldest entry, a list grows.
HistoryAppend(history, x, is_deque) ==
  IF is_deque /\ Len(history) >= history_maxlen
  THEN Append(Tail(history), x) ELSE Append(history, x)

RECURSIVE SumSeq(_)
SumSeq(s) == IF s = << >> THEN 0 ELSE s[1] + SumSeq(Tail(s))

Last10(history) == SubSeq(history, Len(history) - 9, Len(history))

\* A variant without the floor and the ceiling.
_update_epsilon_unclamped(policy) ==
  IF Len(policy.reward_history) >= 10
  THEN LET total == SumSeq(Last10(policy.reward_history))
       IN IF total > 8000 THEN (policy.epsilon * 99) \div 100
          ELSE IF total < 5000 THEN (policy.epsilon * 101) \div 100
          ELSE policy.epsilon
  ELSE policy.epsilon

\* reward_history[-10:] is a TypeError on a deque.
_update_epsilon_raises(policy) ==
  Len(policy.reward_history) >= 10 /\ policy.history_is_deque

_update_epsilon(policy) ==
  IF Len(policy.reward_history) >= 10
  THEN LET total == SumSeq(Last10(policy.reward_history))
       IN IF total > 8000 THEN Max2(epsilon_floor, (policy.epsilon * 99) \div 100)
          ELSE IF total < 5000 THEN Min2(epsilon_ceiling, (policy.epsilon * 101) \div 100)
          ELSE policy.epsilon
  ELSE policy.epsilon

\* An update that moves the Q-value a tenth of the way to the reward.
TDUpdateFast(current_q, reward) == current_q + (reward * 100 - current_q) \div 10

\* A variant that moves the Q-value away from the reward.
TDUpdateReversed(current_q, reward) == current_q - (reward * 100 - current_q) \div 100

\* Q(s,a) = Q(s,a) + learning_rate * (r - Q(s,a)), Q in hundred-thousandths.
TDUpdate(current_q, reward) == current_q + (reward * 100 - current_q) \div learning_rate_inv

\* The record written by _save_policy.
PolicyData(policy) ==
  [q_values |-> policy.q_values,
   action_counts |-> policy.action_counts,
   epsilon |-> policy.epsilon,
   total_actions |-> policy.total_actions,
   successful_actions |-> policy.successful_actions,
   reward_history |-> policy.reward_history,
   action_history |-> policy.action_history]

\* update_policy: the policy after the call and the file after the call.  A
\* TypeError of _update_epsilon ends the call in its handler, before the
\* save; write_ok tells whether the write of the file succeeds.
update_policy(policy, file, action_metadata, reward, write_ok) ==
  LET context_key == action_metadata.context_key
      action == action_metadata.action
      current_q == QValue(policy.q_values, context_key, action)
      new_q == TDUpdate(current_q, reward)
      p1 == [policy EXCEPT
               !.q_values = QStore(@, context_key, action, new_q),
               !.reward_history = HistoryAppend(@, reward, policy.history_is_deque),
               !.action_history = HistoryAppend(@, action, policy.history_is_deque),
               !.successful_actions = IF reward > 700 THEN @ + 1 ELSE @,
               !.experience_buffer = Min2(@ + 1, experience_buffer_size)]
      p2 == [p1 EXCEPT !.epsilon = _update_epsilon(p1)]
  IN IF _update_epsilon_raises(p1) THEN [policy |-> p1, file |-> file]
     ELSE [policy |-> p2,
           file |-> IF p2.experience_buffer % save_period = 0 /\ write_ok
                    THEN <<PolicyData(p2)>> ELSE file]

\* get_policy_stats slices reward_history when it is not empty.
get_policy_stats_raises(policy) == policy.history_is_deque /\ policy.reward_history # << >>

get_policy_stats(policy) ==
  [total_actions |-> policy.total_actions,
   successful_actions |-> policy.successful_actions,
   epsilon |-> policy.epsilon,
   experience_buffer_size |-> policy.experience_buffer,
   contexts_learned |-> Cardinality(DOMAIN policy.q_values)]

\* The feedback argument of calculate_reward: None or an empty dictionary
\* (NoFeedback), a dictionary with a numeric rating, where a missing rating
\* reads as 0, or one whose rating cannot be compared with a number (None, a
\* string): the comparison raises and the handler returns 0.5.
NoFeedback == [given |-> FALSE, rating |-> 0, comparable |-> TRUE]
Feedback(rating) == [given |-> TRUE, rating |-> rating, comparable |-> TRUE]
IncomparableFeedback == [given |-> TRUE, rating |-> 0, comparable |-> FALSE]

\* A variant without the clamp.
calculate_reward_unclamped(grounded, grounding_score, composition_time_ms, feedback) ==
  (IF grounded THEN 400 ELSE 0) + (grounding_score * 3) \div 10
  + (IF composition_time_ms < 50 THEN 200 ELSE IF composition_time_ms < 100 THEN 100 ELSE 0)
  + (IF ~feedback.given THEN 0
     ELSE IF feedback.rating >= 4 THEN 300 ELSE IF feedback.rating >= 3 THEN 100 ELSE -100)

\* A variant whose latency tiers add up: a time below 50 ms earns both.
calculate_reward_tiers_added(grounded, grounding_score, composition_time_ms, feedback) ==
  IF feedback.given /\ ~feedback.comparable THEN 500
  ELSE Max2(0, Min2(1000,
         calculate_reward_unclamped(grounded, grounding_score, composition_time_ms, feedback)
         + (IF composition_time_ms < 50 THEN 100 ELSE 0)))

\* calculate_reward(composition_result, feedback) in thousandths.
calculate_reward(grounded, grounding_score, composition_time_ms, feedback) ==
  IF feedback.given /\ ~feedback.comparable THEN 500
  ELSE LET r1 == IF grounded THEN 400 ELSE 0
           r2 == (grounding_score * 3) \div 10
           r3 == IF composition_time_ms < 50 THEN 200
                 ELSE IF composition_time_ms < 100 THEN 100 ELSE 0
           r4 == IF ~feedback.given THEN 0
                 ELSE IF feedback.rating >= 4 THEN 300
                 ELSE IF feedback.rating >= 3 THEN 100 ELSE -100
       IN Max2(0, Min2(1000, r1 + r2 + r3 + r4))

\* RLPolicy.__init__ without a policy file.
FreshPolicy ==
  [epsilon |-> epsilon_default,
   q_values |-> << >>,
   action_counts |-> << >>,
   reward_history |-> << >>,
   action_history |-> << >>,
   history_is_deque |-> FALSE,
   total_actions |-> 0,
   successful_actions |-> 0,
   experience_buffer |-> 0]

\* _load_policy: the histories become deques, the experience buffer of the
\* new object is empty.
_load_policy(data) ==
  [epsilon |-> data.epsilon,
   q_values |-> data.q_values,
   action_counts |-> data.action_counts,
   reward_history |-> data.reward_history,
   action_history |-> data.action_history,
   history_is_deque |-> TRUE,
   total_actions |-> data.total_actions,
   successful_actions |-> data.successful_actions,
   experience_buffer |-> 0]

\* The places where the read of a policy file can raise: json.load on a
\* file that was cut short, the loop over an action_counts entry that is
\* not a dictionary, deque() on a reward_history that is not a list (null).
LoadFailures == {"json", "action_counts", "reward_history"}

\* The file on disk with that damage.
DamagedFile(data, damaged) ==
  [k \in DOMAIN data \cup {"damaged"} |-> IF k = "damaged" THEN damaged ELSE data[k]]

\* _load_policy when the statement for raised_at raises: the attributes
\* assigned before it keep the values of the file, the handler logs.
_load_policy_raising(policy, data, raised_at) ==
  IF raised_at = "json" THEN policy
  ELSE IF raised_at = "action_counts"
  THEN [policy EXCEPT !.q_values = data.q_values, !.action_counts = << >>]
  ELSE [policy EXCEPT !.q_values = data.q_values,
                      !.action_counts = data.action_counts,
                      !.epsilon = data.epsilon,
                      !.total_actions = data.total_actions,
                      !.successful_actions = data.successful_actions]

\* The file an earlier process leaves behind: it is written by the tenth
\* update of a fresh policy (here ten exploiting compositions of the first
\* request, each with reward 825).
RECURSIVE EarlierProcess(_)
EarlierProcess(n) ==
  IF n = 0 THEN [policy |-> FreshPolicy, file |-> << >>]
  ELSE LET before == EarlierProcess(n - 1)
           context == Request(A_meditation, <<K_meditation>>, "EN")
           sel == select_action(before.policy, context, FALSE, "explain")
       IN update_policy(sel.policy, before.file, sel.metadata, 825, TRUE)

(***************************************************************************)
(* State.                                                                  *)
(***************************************************************************)
VARIABLES
  rl_policy,            \* the singleton RLPolicy object (_rl_policy)
  policy_file,          \* composer/models/rl_policy.json: << >> or <<data>>
  gru_available,        \* GRUStub.is_available()
  feedback_records,     \* FeedbackCollector.feedback_records
  traces,               \* PerformanceMonitor.traces
  requests_made,        \* compose calls completed so far
  pc,                   \* position of the running compose call
  req,                  \* its arguments: trace_id, extractive_answer, top_chunks, lang
  rl_action,            \* locals of Composer.compose
  action_metadata,
  template_id,
  final_text,
  grounding_result,
  grounding_attempts,
  result,               \* the dictionary under construction / returned
  error,                \* str(e) of the exception being handled
  verify_calls,         \* calls of verify_grounding made by this compose call
  calls,                \* the collaborator calls of this compose call, in order
  tpc,                  \* SpecConc: position of each thread
  tlocal                \* SpecConc: locals of each thread

compose_vars ==
  <<pc, req, rl_action, action_metadata, template_id, final_text,
    grounding_result, grounding_attempts, result, error, verify_calls, calls>>

vars ==
  <<rl_policy, policy_file, gru_available, feedback_records, traces, requests_made,
    pc, req, rl_action, action_metadata, template_id, final_text,
    grounding_result, grounding_attempts, result, error, verify_calls, calls,
    tpc, tlocal>>

Threads == 1 .. NumThreads

NoMetadata == [action |-> "", context_key |-> << >>, selection_method |-> "",
               q_value |-> 0, action_count |-> 0, epsilon |-> 0]
NoRequest == [trace_id |-> 0, extractive_answer |-> A_empty,
              top_chunks |-> << >>, lang |-> ""]
NoLocal == [context_key |-> << >>, action |-> "", reward |-> 0, read |-> 0]

Call(op, template, grounded) == [op |-> op, template |-> template, grounded |-> grounded]

\* The state after the construction of the Composer: the policy is fresh
\* or loaded from the file of an earlier process (there without a GRU model).
Init ==
  /\ \E loaded \in BOOLEAN :
       IF loaded
       THEN /\ policy_file = EarlierProcess(save_period).file
            /\ rl_policy = _load_policy(policy_file[1])
            /\ gru_available = FALSE
       ELSE /\ policy_file = << >>
            /\ rl_policy = FreshPolicy
            /\ gru_available \in BOOLEAN
  /\ traces = << >>
  /\ feedback_records = << >>
  /\ requests_made = 0
  /\ pc = "idle"
  /\ req = NoRequest
  /\ rl_action = ""
  /\ action_metadata = NoMetadata
  /\ template_id = ""
  /\ final_text = {}
  /\ grounding_result = EmptyGrounding("")
  /\ grounding_attempts = 0
  /\ result = << >>
  /\ error = ""
  /\ verify_calls = 0
  /\ calls = << >>
  /\ tpc = [t \in Threads |-> "start"]
  /\ tlocal = [t \in Threads |-> NoLocal]

(***************************************************************************)
(* Composer.compose (compose.py), one action per stage.                    *)
(***************************************************************************)
\* A loop that tests the attempt count only.
LoopContinuesUngated(grounded, attempts) == attempts < max_grounding_attempts

\* while not grounding_result['grounded'] and grounding_attempts < max_grounding_attempts
LoopContinues(grounded, attempts) == ~grounded /\ attempts < max_grounding_attempts

\* grounding_attempts = 1 after the first verification, += 1 after each
\* further one.
AttemptsAfterVerify(attempts) == attempts + 1

\* The fallback of the loop body for the attempt count: 1 renders the
\* extractive template, 2 improves the text, any other count changes nothing.
FallbackKind(attempts) ==
  IF attempts = 1 THEN "extractive" ELSE IF attempts = 2 THEN "improve" ELSE "none"

\* A pass of the loop body that leaves the improved text unverified.
AfterFallbackUnverified(kind) == IF kind = "improve" THEN "assemble" ELSE "verify"

\* Every pass of the loop body ends in the re-verification of final_text.
AfterFallback(kind) == "verify"

\* A handler that numbers its results itself: the id is that of the last
\* completed call.
ErrorResultAnonymous(request, time_ms, message) ==
  [trace_id |-> requests_made,
   final_text |-> request.extractive_answer.text,
   template_id |-> "error_fallback",
   grounded |-> FALSE,
   grounding_score |-> 0,
   overlapping_tokens |-> {},
   composition_time_ms |-> time_ms,
   lang |-> request.lang,
   method |-> "error_fallback",
   error |-> message,
   citations |-> IF request.top_chunks # << >>
                 THEN _extract_citations(request.top_chunks) ELSE << >>]

\* A handler that returns the text composed so far.
ErrorResultPartial(request, time_ms, message) ==
  [trace_id |-> request.trace_id,
   final_text |-> IF final_text = {} THEN request.extractive_answer.text ELSE final_text,
   template_id |-> IF template_id = "" THEN "error_fallback" ELSE template_id,
   grounded |-> grounding_result.grounded,
   grounding_score |-> grounding_result.score,
   overlapping_tokens |-> grounding_result.overlapping_tokens,
   composition_time_ms |-> time_ms,
   lang |-> request.lang,
   method |-> "error_fallback",
   error |-> message,
   citations |-> << >>]

\* The dictionary returned by the handler of compose.
ErrorResult(request, time_ms, message) ==
  [trace_id |-> request.trace_id,
   final_text |-> request.extractive_answer.text,
   template_id |-> "error_fallback",
   grounded |-> FALSE,
   grounding_score |-> 0,
   overlapping_tokens |-> {},
   composition_time_ms |-> time_ms,
   lang |-> request.lang,
   method |-> "error_fallback",
   error |-> message,
   citations |-> IF request.top_chunks # << >>
                 THEN _extract_citations(request.top_chunks) ELSE << >>]

\* The dictionary assembled after the loop.
DoneResult(request, text, template, grounding, attempts, time_ms, available, action, metadata, stats) ==
  [trace_id |-> request.trace_id,
   final_text |-> text,
   template_id |-> template,
   grounded |-> grounding.grounded,
   grounding_score |-> grounding.score,
   overlapping_tokens |-> grounding.overlapping_tokens,
   composition_time_ms |-> time_ms,
   lang |-> request.lang,
   method |-> IF available THEN "gru" ELSE "ngram_template",
   citations |-> _extract_citations(request.top_chunks),
   grounding_attempts |-> attempts,
   rl_action |-> action,
   rl_metadata |-> metadata,
   policy_stats |-> stats]

\* The composition times a call can measure: a GRU model sleeps 100 ms.
CompositionTimes(available) == IF available THEN {200} ELSE {10}

\* Raise e inside the try block of compose.
Raise(message) == /\ pc' = "except"
                  /\ error' = message

\* A validation that looks at the answer only.
InputsMissingAnswerOnly(extractive_answer, top_chunks) == extractive_answer.text = {}

\* if not extractive_answer or not top_chunks
InputsMissing(extractive_answer, top_chunks) == extractive_answer.text = {} \/ top_chunks = << >>

BeginCompose(trace_id, r) ==
  /\ pc = "idle"
  /\ requests_made < MaxRequests
  /\ req' = [trace_id |-> trace_id, extractive_answer |-> r.extractive_answer,
             top_chunks |-> r.top_chunks, lang |-> r.lang]
  /\ rl_action' = ""
  /\ action_metadata' = NoMetadata
  /\ template_id' = ""
  /\ final_text' = {}
  /\ grounding_result' = EmptyGrounding("")
  /\ grounding_attempts' = 0
  /\ result' = << >>
  /\ verify_calls' = 0
  /\ calls' = << >>
  /\ IF InputsMissing(r.extractive_answer, r.top_chunks)
     THEN Raise("extractive_answer and top_chunks are required")
     ELSE pc' = "select" /\ error' = ""
  /\ UNCHANGED <<rl_policy, policy_file, gru_available, feedback_records, traces,
                 requests_made, tpc, tlocal>>

\* The template of the action chosen by the policy.
ActionTemplate(action, lang) ==
  CASE action = "explain" -> get_explain_template(lang)
    [] action = "compare" -> get_compare_template(lang)
    [] action = "example" -> get_example_template(lang)
    [] OTHER -> get_extractive_fallback(lang)

SelectStage(explore, choice) ==
  /\ pc = "select"
  /\ LET sel == select_action(rl_policy, req, explore, choice)
         chosen == ActionTemplate(sel.action, req.lang)
     IN /\ rl_policy' = sel.policy
        /\ rl_action' = sel.action
        /\ action_metadata' = sel.metadata
        /\ IF sel.action = "extractive" /\ get_extractive_fallback_raises(req.lang)
           THEN /\ Raise(req.lang)
                /\ calls' = Append(calls, Call("select", "", FALSE))
                /\ UNCHANGED template_id
           ELSE IF _is_template_suitable(chosen, req.extractive_answer, req.top_chunks)
           THEN /\ template_id' = chosen
                /\ calls' = Append(calls, Call("select", chosen, FALSE))
                /\ pc' = "render"
                /\ UNCHANGED error
           ELSE IF select_template_raises(req.top_chunks, req.lang)
           THEN /\ Raise(req.lang)
                /\ calls' = Append(calls, Call("select", chosen, FALSE))
                /\ UNCHANGED template_id
           ELSE /\ template_id' = select_template(req.extractive_answer, req.top_chunks, req.lang)
                /\ calls' = calls \o <<Call("select", chosen, FALSE),
                                       Call("select_template", template_id', FALSE)>>
                /\ pc' = "render"
                /\ UNCHANGED error
  /\ UNCHANGED <<policy_file, gru_available, feedback_records, traces, requests_made, req,
                 final_text,
                 grounding_result, grounding_attempts, result, verify_calls, tpc, tlocal>>

RenderStage(rewrite) ==
  /\ pc = "render"
  /\ LET composed_text == apply_template(template_id, req.extractive_answer,
                                         req.top_chunks, req.lang)
         smoothed_text == smooth_text(composed_text, rewrite)
     IN final_text' = _try_gru_enhancement(smoothed_text, req.top_chunks, gru_available)
  /\ calls' = Append(calls, Call("render", template_id, FALSE))
  /\ pc' = "verify"
  /\ UNCHANGED <<rl_policy, policy_file, gru_available, feedback_records, traces,
                 requests_made, req,
                 rl_action, action_metadata, template_id, grounding_result,
                 grounding_attempts, result, error, verify_calls, tpc, tlocal>>

VerifyStage ==
  /\ pc = "verify"
  /\ grounding_result' = verify_grounding(final_text, req.top_chunks)
  /\ grounding_attempts' = AttemptsAfterVerify(grounding_attempts)
  /\ verify_calls' = verify_calls + 1
  /\ calls' = Append(calls, Call("verify", template_id, grounding_result'.grounded))
  /\ pc' = IF LoopContinues(grounding_result'.grounded, grounding_attempts')
           THEN "fallback" ELSE "assemble"
  /\ UNCHANGED <<rl_policy, policy_file, gru_available, feedback_records, traces,
                 requests_made, req,
                 rl_action, action_metadata, template_id, final_text, result, error,
                 tpc, tlocal>>

\* One pass of the loop body before the re-verification.  An attempt count
\* that is neither 1 nor 2 changes nothing.
FallbackStage ==
  /\ pc = "fallback"
  /\ LET kind == FallbackKind(grounding_attempts)
     IN IF kind = "extractive"
        THEN IF get_extractive_fallback_raises(req.lang)
             THEN /\ Raise(req.lang)
                  /\ UNCHANGED <<template_id, final_text, calls, verify_calls>>
             ELSE /\ template_id' = get_extractive_fallback(req.lang)
                  /\ final_text' = apply_template(template_id', req.extractive_answer,
                                                  req.top_chunks, req.lang)
                  /\ calls' = Append(calls, Call("render", template_id', FALSE))
                  /\ pc' = AfterFallback(kind)
                  /\ UNCHANGED <<error, verify_calls>>
        ELSE IF kind = "improve"
        THEN /\ final_text' \in improve_grounding(final_text, req.top_chunks)
             /\ verify_calls' = verify_calls + 1
             /\ calls' = Append(calls, Call("improve", template_id, FALSE))
             /\ pc' = AfterFallback(kind)
             /\ UNCHANGED <<template_id, error>>
        ELSE /\ pc' = AfterFallback(kind)
             /\ UNCHANGED <<template_id, final_text, calls, verify_calls, error>>
  /\ UNCHANGED <<rl_policy, policy_file, gru_available, feedback_records, traces,
                 requests_made, req,
                 rl_action, action_metadata, grounding_result, grounding_attempts,
                 result, tpc, tlocal>>

AssembleStage(time_ms) ==
  /\ pc = "assemble"
  /\ IF _extract_citations_raises(req.top_chunks)
     THEN /\ Raise("object of type 'NoneType' has no len()")
          /\ UNCHANGED <<result, calls>>
     ELSE IF get_policy_stats_raises(rl_policy)
     THEN /\ Raise("sequence index must be integer, not 'slice'")
          /\ UNCHANGED <<result, calls>>
     ELSE /\ result' = DoneResult(req, final_text, template_id, grounding_result,
                                  grounding_attempts, time_ms, gru_available,
                                  rl_action, action_metadata, get_policy_stats(rl_policy))
          /\ calls' = Append(calls, Call("assemble", template_id, grounding_result.grounded))
          /\ pc' = "update"
          /\ UNCHANGED error
  /\ UNCHANGED <<rl_policy, policy_file, gru_available, feedback_records, traces,
                 requests_made, req,
                 rl_action, action_metadata, template_id, final_text, grounding_result,
                 grounding_attempts, verify_calls, tpc, tlocal>>

\* The update can write the policy file only on a tenth update.
WriteOutcomes(policy) ==
  IF (Min2(policy.experience_buffer + 1, experience_buffer_size)) % save_period = 0
  THEN BOOLEAN ELSE {TRUE}

UpdateStage(write_ok) ==
  /\ pc = "update"
  /\ LET reward == calculate_reward(result.grounded, result.grounding_score,
                                    result.composition_time_ms, NoFeedback)
         upd == update_policy(rl_policy, policy_file, action_metadata, reward, write_ok)
     IN /\ rl_policy' = upd.policy
        /\ policy_file' = upd.file
        /\ result' = [k \in DOMAIN result \cup {"rl_reward"} |->
                        IF k = "rl_reward" THEN reward ELSE result[k]]
        /\ calls' = Append(calls, Call("update", template_id, FALSE))
  /\ pc' = "log"
  /\ UNCHANGED <<gru_available, feedback_records, traces, requests_made, req, rl_action,
                 action_metadata,
                 template_id, final_text, grounding_result, grounding_attempts, error,
                 verify_calls, tpc, tlocal>>

\* PerformanceMonitor.log_composition
CompositionTrace(composition_result, request) ==
  [trace_id |-> composition_result.trace_id,
   lang |-> composition_result.lang,
   chunk_count |-> Len(request.top_chunks),
   template_id |-> composition_result.template_id,
   rl_action |-> composition_result.rl_action,
   rl_reward |-> composition_result.rl_reward,
   grounded |-> composition_result.grounded,
   grounding_score |-> composition_result.grounding_score,
   composition_time_ms |-> composition_result.composition_time_ms,
   grounding_attempts |-> composition_result.grounding_attempts,
   method |-> composition_result.method,
   success |-> "error" \notin DOMAIN composition_result]

LogStage ==
  /\ pc = "log"
  /\ traces' = Append(traces, CompositionTrace(result, req))
  /\ calls' = Append(calls, Call("log", template_id, FALSE))
  /\ pc' = "returned"
  /\ UNCHANGED <<rl_policy, policy_file, gru_available, feedback_records, requests_made,
                 req, rl_action,
                 action_metadata, template_id, final_text, grounding_result,
                 grounding_attempts, result, error, verify_calls, tpc, tlocal>>

\* except Exception as e: the handler builds the error dictionary; its call
\* of _extract_citations is outside any handler.
ExceptStage(time_ms) ==
  /\ pc = "except"
  /\ IF req.top_chunks # << >> /\ _extract_citations_raises(req.top_chunks)
     THEN /\ pc' = "raised"
          /\ result' = << >>
     ELSE /\ pc' = "returned"
          /\ result' = ErrorResult(req, time_ms, error)
  /\ UNCHANGED <<rl_policy, policy_file, gru_available, feedback_records, traces,
                 requests_made, req,
                 rl_action, action_metadata, template_id, final_text, grounding_result,
                 grounding_attempts, error, verify_calls, calls, tpc, tlocal>>

\* The call is over; the caller holds the result or the exception.
EndCompose ==
  /\ pc \in {"returned", "raised"}
  /\ pc' = "idle"
  /\ requests_made' = requests_made + 1
  /\ UNCHANGED <<rl_policy, policy_file, gru_available, feedback_records, traces, req, rl_action,
                 action_metadata, template_id, final_text, grounding_result,
                 grounding_attempts, result, error, verify_calls, calls, tpc, tlocal>>

Next ==
  \/ \E trace_id \in TraceIds(requests_made + 1), r \in Requests : BeginCompose(trace_id, r)
  \/ \E explore \in BOOLEAN, choice \in PolicyAction : SelectStage(explore, choice)
  \/ \E rewrite \in SmoothRewrites : RenderStage(rewrite)
  \/ VerifyStage
  \/ FallbackStage
  \/ \E time_ms \in CompositionTimes(gru_available) : AssembleStage(time_ms)
  \/ \E write_ok \in WriteOutcomes(rl_policy) : UpdateStage(write_ok)
  \/ LogStage
  \/ \E time_ms \in CompositionTimes(gru_available) : ExceptStage(time_ms)
  \/ EndCompose

Spec == Init /\ [][Next]_vars

(***************************************************************************)
(* Properties of compose.                                                  *)
(***************************************************************************)
IsVerify(c) == c.op = "verify"

\* The verifications made by the loop of this call, in order.
Verifications == SelectSeq(calls, IsVerify)

\* The call holds the dictionary assembled after the loop.
DoneHeld == pc \in {"update", "log", "returned"} /\ "grounding_attempts" \in DOMAIN result

\* The text of the attempt-1 fallback: the extractive template, not smoothed.
ExtractiveText(request) ==
  apply_template(get_extractive_fallback(request.lang), request.extractive_answer,
                 request.top_chunks, request.lang)

\* C1: a call of compose makes at most 3 calls of
\* GroundingVerifier.verify_grounding in total, the one inside
\* improve_grounding included.
C1_AtMostThreeVerifyCalls == verify_calls <= max_grounding_attempts

\* C2: compose never propagates an exception to its caller: a call never
\* ends with an exception leaving the handler.
C2_NeverPropagates == pc # "raised"

\* C3: when compose takes the error path, the returned result has final_text
\* equal to the input extractive_answer, grounded false, grounding_score 0,
\* template_id 'error_fallback' and an error field holding the message.
C3_ErrorFallbackResult ==
  (pc = "returned" /\ error # "") =>
     /\ "error" \in DOMAIN result
     /\ result.error = error
     /\ result.final_text = req.extractive_answer.text
     /\ result.grounded = FALSE
     /\ result.grounding_score = 0
     /\ result.template_id = "error_fallback"

\* C3 witness: the handler returned after a text other than the answer had
\* been composed.
C3_Witness ==
  /\ pc = "returned"
  /\ error # ""
  /\ final_text # {}
  /\ final_text # req.extractive_answer.text

\* C4: in a result returned through DONE, grounded, grounding_score and
\* overlapping_tokens are those of the last verification, and that
\* verification ran on the returned final_text: after every fallback step
\* the text is verified again before the result is assembled.
C4_ResultInSync ==
  /\ pc = "assemble" => grounding_result = verify_grounding(final_text, req.top_chunks)
  /\ DoneHeld =>
       LET last == verify_grounding(result.final_text, req.top_chunks)
       IN /\ result.final_text = final_text
          /\ result.grounded = last.grounded
          /\ result.grounding_score = last.score
          /\ result.overlapping_tokens = last.overlapping_tokens
          /\ result.grounded = grounding_result.grounded
          /\ result.grounded = Verifications[Len(Verifications)].grounded

\* C4 witness: a result is returned whose text the improve step changed.
C4_Witness ==
  /\ pc = "returned"
  /\ DoneHeld
  /\ \E i \in DOMAIN calls : calls[i].op = "improve"
  /\ result.final_text # ExtractiveText(req)

\* C5: every result returned by compose reports grounding_attempts with
\* 1 <= attempts <= 3.
C5_AttemptsReported ==
  pc = "returned" =>
     /\ "grounding_attempts" \in DOMAIN result
     /\ result.grounding_attempts \in 1 .. max_grounding_attempts

\* C6: the COMPARE template is never rendered when fewer than 2 chunks were
\* supplied, nor the EXAMPLE template when the answer is shorter than 30
\* characters.
C6_NoUnsuitableRender ==
  \A i \in DOMAIN calls :
     calls[i].op = "render" =>
        /\ ~(TemplateKind(calls[i].template) = "compare" /\ Len(req.top_chunks) < 2)
        /\ ~(TemplateKind(calls[i].template) = "example" /\ req.extractive_answer.len < 30)

\* C7: when the first verification fails, the next steps of the call are
\* the render of the EXTRACTIVE template and the verification of that text.
C7_ExtractiveForced ==
  \A i \in DOMAIN calls :
     (/\ calls[i].op = "verify"
      /\ ~calls[i].grounded
      /\ \A j \in 1 .. (i - 1) : calls[j].op # "verify") =>
        IF i = Len(calls) THEN pc = "fallback"
        ELSE /\ calls[i + 1].op = "render"
             /\ TemplateKind(calls[i + 1].template) = "extractive"
             /\ IF i + 1 = Len(calls) THEN pc = "verify"
                ELSE calls[i + 2].op = "verify"

\* C8: the loop stops at the first verification that reports grounded: no
\* verification follows a grounded one, a DONE result with attempts < 3 has
\* its last verification grounded, and after two failed verifications the
\* result has attempts = 3, the text of the improve step and the grounded
\* flag of the third verification.
C8_StopsAtFirstGrounded ==
  /\ \A i \in DOMAIN Verifications : Verifications[i].grounded => i = Len(Verifications)
  /\ DoneHeld =>
       /\ result.grounding_attempts = Len(Verifications)
       /\ result.grounding_attempts < max_grounding_attempts =>
             Verifications[result.grounding_attempts].grounded
       /\ (/\ Len(Verifications) >= 2
           /\ ~Verifications[1].grounded
           /\ ~Verifications[2].grounded) =>
             /\ result.grounding_attempts = max_grounding_attempts
             /\ result.final_text \in improve_grounding(ExtractiveText(req), req.top_chunks)
             /\ result.grounded = Verifications[3].grounded

\* C8 witness: a result is returned after three failed verifications.
C8_Witness ==
  /\ pc = "returned"
  /\ DoneHeld
  /\ result.grounding_attempts = max_grounding_attempts
  /\ ~result.grounded

(***************************************************************************)
(* Threads on one policy object (SpecConc).  Every thread makes the two    *)
(* policy calls of a composition, select_action and update_policy.  The    *)
(* policy has no lock: an augmented assignment (x += 1) and the            *)
(* read-compute-write of the Q-value are a load and a later store, and     *)
(* another thread can run in between.                                      *)
(***************************************************************************)
\* The contexts and composition outcomes of the threads.
ThreadRequests == { Request(A_meditation, <<K_meditation>>, "EN") }
\* The actions a thread's exploration draws.
ThreadChoices == { "explain", "extractive" }
ThreadOutcomes == { [grounded |-> TRUE, score |-> 1000, time_ms |-> 10],
                    [grounded |-> FALSE, score |-> 500, time_ms |-> 200] }

thread_unchanged == <<policy_file, gru_available, feedback_records, traces, requests_made, compose_vars>>

\* select_action up to the load of action_counts[context_key][action].
TSelect(t, r, explore, choice, outcome) ==
  /\ tpc[t] = "start"
  /\ LET context_key == _extract_context_key(r)
         action == IF explore THEN choice
                   ELSE _get_best_action(rl_policy.q_values, context_key)
     IN tlocal' = [tlocal EXCEPT ![t] =
                     [context_key |-> context_key,
                      action |-> action,
                      reward |-> calculate_reward(outcome.grounded, outcome.score,
                                                  outcome.time_ms, NoFeedback),
                      read |-> CountValue(rl_policy.action_counts, context_key, action)]]
  /\ tpc' = [tpc EXCEPT ![t] = "count_loaded"]
  /\ UNCHANGED <<rl_policy, thread_unchanged>>

\* the store of self.action_counts[context_key][action.value] += 1
TStoreCount(t) ==
  /\ tpc[t] = "count_loaded"
  /\ rl_policy' = [rl_policy EXCEPT !.action_counts =
                     CountStore(@, tlocal[t].context_key, tlocal[t].action, tlocal[t].read + 1)]
  /\ tpc' = [tpc EXCEPT ![t] = "count_stored"]
  /\ UNCHANGED <<tlocal, thread_unchanged>>

\* the load of self.total_actions += 1
TLoadTotal(t) ==
  /\ tpc[t] = "count_stored"
  /\ tlocal' = [tlocal EXCEPT ![t].read = rl_policy.total_actions]
  /\ tpc' = [tpc EXCEPT ![t] = "total_loaded"]
  /\ UNCHANGED <<rl_policy, thread_unchanged>>

\* the store of self.total_actions += 1 and the read of the Q-value for the
\* metadata; select_action returns.
TStoreTotal(t) ==
  /\ tpc[t] = "total_loaded"
  /\ rl_policy' = [rl_policy EXCEPT
                     !.total_actions = tlocal[t].read + 1,
                     !.q_values = QTouch(@, tlocal[t].context_key, tlocal[t].action)]
  /\ tpc' = [tpc EXCEPT ![t] = "selected"]
  /\ UNCHANGED <<tlocal, thread_unchanged>>

\* update_policy: current_q = self.q_values[context_key][action]
TLoadQ(t) ==
  /\ tpc[t] = "selected"
  /\ tlocal' = [tlocal EXCEPT ![t].read =
                  QValue(rl_policy.q_values, tlocal[t].context_key, tlocal[t].action)]
  /\ tpc' = [tpc EXCEPT ![t] = "q_loaded"]
  /\ UNCHANGED <<rl_policy, thread_unchanged>>

\* self.q_values[context_key][action] = new_q and the two appends
TStoreQ(t) ==
  /\ tpc[t] = "q_loaded"
  /\ rl_policy' = [rl_policy EXCEPT
       !.q_values = QStore(@, tlocal[t].context_key, tlocal[t].action,
                           TDUpdate(tlocal[t].read, tlocal[t].reward)),
       !.reward_history = HistoryAppend(@, tlocal[t].reward, rl_policy.history_is_deque),
       !.action_history = HistoryAppend(@, tlocal[t].action, rl_policy.history_is_deque)]
  /\ tpc' = [tpc EXCEPT ![t] = "q_stored"]
  /\ UNCHANGED <<tlocal, thread_unchanged>>

\* the load of self.successful_actions += 1
TLoadSuccessful(t) ==
  /\ tpc[t] = "q_stored"
  /\ tlocal' = [tlocal EXCEPT ![t].read = rl_policy.successful_actions]
  /\ tpc' = [tpc EXCEPT ![t] = "successful_loaded"]
  /\ UNCHANGED <<rl_policy, thread_unchanged>>

\* the store of self.successful_actions += 1 and the rest of update_policy
TFinishUpdate(t, write_ok) ==
  /\ tpc[t] = "successful_loaded"
  /\ LET p1 == [rl_policy EXCEPT
                  !.successful_actions =
                     IF tlocal[t].reward > 700 THEN tlocal[t].read + 1 ELSE @,
                  !.experience_buffer = Min2(@ + 1, experience_buffer_size)]
         p2 == [p1 EXCEPT !.epsilon = _update_epsilon(p1)]
     IN IF _update_epsilon_raises(p1)
        THEN rl_policy' = p1 /\ UNCHANGED policy_file
        ELSE /\ rl_policy' = p2
             /\ policy_file' = IF p2.experience_buffer % save_period = 0 /\ write_ok
                               THEN <<PolicyData(p2)>> ELSE policy_file
  /\ tpc' = [tpc EXCEPT ![t] = "done"]
  /\ UNCHANGED <<tlocal, gru_available, feedback_records, traces, requests_made, compose_vars>>

InitConc ==
  /\ Init
  /\ rl_policy = FreshPolicy
  /\ gru_available = FALSE

NextConc ==
  \/ \E t \in Threads, r \in ThreadRequests, explore \in BOOLEAN,
        choice \in ThreadChoices, outcome \in ThreadOutcomes :
          TSelect(t, r, explore, choice, outcome)
  \/ \E t \in Threads : TStoreCount(t)
  \/ \E t \in Threads : TLoadTotal(t)
  \/ \E t \in Threads : TStoreTotal(t)
  \/ \E t \in Threads : TLoadQ(t)
  \/ \E t \in Threads : TStoreQ(t)
  \/ \E t \in Threads : TLoadSuccessful(t)
  \/ \E t \in Threads, write_ok \in WriteOutcomes(rl_policy) : TFinishUpdate(t, write_ok)

SpecConc == InitConc /\ [][NextConc]_vars

(***************************************************************************)
(* Properties of the threads.                                              *)
(***************************************************************************)
AllDone == \A t \in Threads : tpc[t] = "done"

AllSelected ==
  \A t \in Threads : tpc[t] \in {"selected", "q_loaded", "q_stored", "successful_loaded", "done"}

\* The orders in which the updates of the threads can run one after another.
SerialOrders ==
  {order \in [Threads -> Threads] : \A t, u \in Threads : order[t] = order[u] => t = u}

\* The Q-value after the first n updates of the order, each a whole
\* update_policy, from the Q-value 0.0 of a new entry.
RECURSIVE SerialQ(_, _)
SerialQ(order, n) ==
  IF n = 0 THEN 0 ELSE TDUpdate(SerialQ(order, n - 1), tlocal[order[n]].reward)

\* C9: concurrent updates of the same (ContextKey, Strategy) lose nothing:
\* the final Q-value, the reward history and the successful-action count
\* are those of some serial order of the same updates.
C9_NoLostUpdate ==
  (/\ AllDone
   /\ \A t, u \in Threads : /\ tlocal[t].context_key = tlocal[u].context_key
                            /\ tlocal[t].action = tlocal[u].action) =>
     \E order \in SerialOrders :
        /\ QValue(rl_policy.q_values, tlocal[1].context_key, tlocal[1].action)
              = SerialQ(order, NumThreads)
        /\ rl_policy.reward_history = [i \in Threads |-> tlocal[order[i]].reward]
        /\ rl_policy.successful_actions
              = Cardinality({t \in Threads : tlocal[t].reward > 700})

\* C10: after N concurrent select calls total_actions has grown by exactly
\* N and each per-(ContextKey, Strategy) count by the number of times the
\* pair was returned.
C10_NoLostCount ==
  AllSelected =>
     /\ rl_policy.total_actions = NumThreads
     /\ \A k \in DOMAIN rl_policy.action_counts :
           rl_policy.action_counts[k]
              = Cardinality({t \in Threads : <<tlocal[t].context_key, tlocal[t].action>> = k})

(***************************************************************************)
(* Calls on the policy object (SpecPolicy): the select_action and          *)
(* update_policy calls of compositions, and the two feedback entry points, *)
(* FeedbackCollector.collect_feedback (feedback_collector.py) and          *)
(* Composer.update_with_feedback.  calls is the log of the calls made.     *)
(***************************************************************************)
\* The contexts of the compositions.
PolicyRequests == { Request(A_meditation, <<K_meditation>>, "EN"),
                    Request(A_cooking, <<K_meditation>>, "HI") }

\* The outcomes of the compositions: grounded and fast, ungrounded and slow.
PolicyOutcomes == { [grounded |-> TRUE, score |-> 1000, time_ms |-> 10],
                    [grounded |-> FALSE, score |-> 500, time_ms |-> 200] }

\* The feedback submitted: a rating and whether comments longer than ten
\* characters come with it.
FeedbackRatings == {1, 3, 5}

\* The policy of a process that was constructed without a policy file and
\* has made n exploiting compositions of one context, all with one outcome:
\* the Q-value and epsilon after n updates, and the policy object with them.
OutcomeReward(outcome) ==
  calculate_reward(outcome.grounded, outcome.score, outcome.time_ms, NoFeedback)

\* The Q-value of the pair after n more updates with one reward: the
\* second half of the updates is applied to the value after the first half.
RECURSIVE QAfter(_, _, _)
QAfter(q, n, reward) ==
  IF n = 0 THEN q
  ELSE IF n = 1 THEN TDUpdate(q, reward)
  ELSE CHOOSE after \in {QAfter(half, n - n \div 2, reward) :
                           half \in {QAfter(q, n \div 2, reward)}} : TRUE

StreakQ(n, reward) == QAfter(0, n, reward)

\* epsilon after updates done + 1 .. n with one reward, given epsilon after
\* the first done of them: _update_epsilon leaves it alone until the history
\* holds ten rewards.
RECURSIVE EpsilonAfter(_, _, _, _)
EpsilonAfter(epsilon, done, n, reward) ==
  IF done >= n THEN epsilon
  ELSE IF n = done + 1
  THEN _update_epsilon([epsilon |-> epsilon,
                        reward_history |-> [i \in 1 .. Min2(n, save_period) |-> reward]])
  ELSE CHOOSE after \in {EpsilonAfter(half, (done + n) \div 2, n, reward) :
                           half \in {EpsilonAfter(epsilon, done, (done + n) \div 2, reward)}} : TRUE

StreakEpsilon(n, reward) == EpsilonAfter(epsilon_default, 0, n, reward)

StreakPolicy(n, outcome) ==
  LET context_key == _extract_context_key(Request(A_meditation, <<K_meditation>>, "EN"))
      reward == OutcomeReward(outcome)
  IN [epsilon |-> StreakEpsilon(n, reward),
      q_values |-> IF n = 0 THEN << >>
                   ELSE QStore(<< >>, context_key, "explain", StreakQ(n, reward)),
      action_counts |-> IF n = 0 THEN << >>
                        ELSE CountStore(<< >>, context_key, "explain", n),
      reward_history |-> [i \in 1 .. n |-> reward],
      action_history |-> [i \in 1 .. n |-> "explain"],
      history_is_deque |-> FALSE,
      total_actions |-> n,
      successful_actions |-> IF reward > 700 THEN n ELSE 0,
      experience_buffer |-> n]

\* The policy and the file of that process: the file was written by the
\* last update whose number is a multiple of ten.
InProcess(n, outcome) ==
  [policy |-> StreakPolicy(n, outcome),
   file |-> IF n < save_period THEN << >>
            ELSE <<PolicyData(StreakPolicy(n - (n % save_period), outcome))>>]

\* FeedbackCollector._calculate_feedback_reward, in thousandths.
_calculate_feedback_reward(rating, long_comments) ==
  LET base == (rating - 1) * 250
      bonus == IF long_comments THEN 100 ELSE 0
      penalty == IF rating = 1 THEN 100 ELSE 0
  IN Max2(0, Min2(1000, base + bonus - penalty))

\* The action metadata FeedbackCollector builds for the update.
FeedbackMetadata == [action |-> "unknown", context_key |-> <<"default">>]

\* The feedback types _validate_feedback accepts.
valid_types == {"quality", "relevance", "accuracy", "helpfulness", "overall"}

\* A feedback_data dictionary: whether it has the key 'rating', whether the
\* rating is an int, its value, its type ("quality" when the key is absent)
\* and whether comments longer than ten characters come with it.
FeedbackData(has_rating, is_int, rating, type, long_comments) ==
  [has_rating |-> has_rating, is_int |-> is_int, rating |-> rating,
   type |-> type, long_comments |-> long_comments]

\* The feedback submitted after compositions: every rating of
\* FeedbackRatings, the highest with long comments, the middle one with and
\* without (a long comment changes nothing in the reward of the lowest
\* rating, and the highest reward is 1 with and without).
RatedFeedback ==
  { FeedbackData(TRUE, TRUE, rating, "quality", rating = 5) : rating \in FeedbackRatings }
  \cup { FeedbackData(TRUE, TRUE, 3, "quality", TRUE) }

\* The feedback submitted to the collector of SpecFeedback: the same, a
\* rating with another accepted type, and feedback without a rating, with
\* the ratings 0 and 6, with the rating 4.0 (a float) and with the type
\* "speed".
FeedbackInputs ==
  RatedFeedback
  \cup { FeedbackData(TRUE, TRUE, 3, "overall", FALSE),
         FeedbackData(FALSE, FALSE, 0, "quality", FALSE),
         FeedbackData(TRUE, TRUE, 0, "quality", FALSE),
         FeedbackData(TRUE, TRUE, 6, "quality", TRUE),
         FeedbackData(TRUE, FALSE, 4, "quality", FALSE),
         FeedbackData(TRUE, TRUE, 5, "speed", TRUE) }

\* A validation that does not look at the type.
_validate_feedback_any_type(feedback_data) ==
  /\ feedback_data.has_rating
  /\ feedback_data.is_int /\ feedback_data.rating >= 1 /\ feedback_data.rating <= 5

\* FeedbackCollector._validate_feedback.
_validate_feedback(feedback_data) ==
  /\ feedback_data.has_rating
  /\ feedback_data.is_int /\ feedback_data.rating >= 1 /\ feedback_data.rating <= 5
  /\ feedback_data.type \in valid_types

\* The FeedbackRecord collect_feedback creates.
FeedbackRecord(trace_id, feedback_data) ==
  [trace_id |-> trace_id, rating |-> feedback_data.rating,
   feedback_type |-> feedback_data.type, long_comments |-> feedback_data.long_comments]

PolicyCall(op, trace_id, context_key, action, method) ==
  [op |-> op, trace_id |-> trace_id, context_key |-> context_key,
   action |-> action, method |-> method]

policy_unchanged ==
  <<gru_available, traces, template_id, final_text, grounding_result,
    grounding_attempts, error, verify_calls, tpc, tlocal>>

\* The policies the calls start from: a process that has built up no
\* history, nine good outcomes, enough good outcomes to bring epsilon to its
\* floor, enough poor ones to bring it to its ceiling; or a process that
\* loaded the file of an earlier one.
PolicyStarts ==
  LET good == CHOOSE o \in PolicyOutcomes : o.grounded
      poor == CHOOSE o \in PolicyOutcomes : ~o.grounded
      file == EarlierProcess(save_period).file
  IN { InProcess(0, good), InProcess(save_period - 1, good), InProcess(LongGood, good),
       InProcess(LongPoor, poor),
       [policy |-> _load_policy(file[1]), file |-> file] }

\* The policies constructed on a file whose read raises; error is the
\* message the handler of _load_policy has logged.
FailedLoads ==
  LET file == EarlierProcess(save_period).file
  IN { [policy |-> _load_policy_raising(FreshPolicy, file[1], raised_at),
        file |-> <<DamagedFile(file[1], raised_at)>>] : raised_at \in LoadFailures }

InitPolicy ==
  /\ \/ \E start \in PolicyStarts : /\ rl_policy = start.policy
                                    /\ policy_file = start.file
                                    /\ error = ""
     \/ \E start \in FailedLoads : /\ rl_policy = start.policy
                                   /\ policy_file = start.file
                                   /\ error = "Failed to load RL policy"
  /\ gru_available = FALSE
  /\ traces = << >>
  /\ feedback_records = << >>
  /\ requests_made = 0
  /\ pc = "idle"
  /\ req = NoRequest
  /\ rl_action = ""
  /\ action_metadata = NoMetadata
  /\ template_id = ""
  /\ final_text = {}
  /\ grounding_result = EmptyGrounding("")
  /\ grounding_attempts = 0
  /\ result = << >>
  /\ verify_calls = 0
  /\ calls = << >>
  /\ tpc = [t \in Threads |-> "start"]
  /\ tlocal = [t \in Threads |-> NoLocal]

\* rl_action, action_metadata = self.rl_policy.select_action(policy_context)
PSelect(r, explore, choice) ==
  /\ pc = "idle"
  /\ Len(calls) < MaxPolicyCalls
  /\ LET sel == select_action(rl_policy, r, explore, choice)
     IN /\ rl_policy' = sel.policy
        /\ rl_action' = sel.action
        /\ action_metadata' = sel.metadata
        /\ calls' = Append(calls, PolicyCall("select", requests_made + 1,
                                             sel.metadata.context_key, sel.action,
                                             sel.metadata.selection_method))
  /\ req' = [trace_id |-> requests_made + 1, extractive_answer |-> r.extractive_answer,
             top_chunks |-> r.top_chunks, lang |-> r.lang]
  /\ pc' = "selected"
  /\ result' = << >>
  /\ UNCHANGED <<policy_file, requests_made, feedback_records, policy_unchanged>>

\* self.rl_policy.update_policy(trace_id, action_metadata, reward, result)
PUpdate(outcome, write_ok) ==
  /\ pc = "selected"
  /\ LET reward == calculate_reward(outcome.grounded, outcome.score, outcome.time_ms, NoFeedback)
         upd == update_policy(rl_policy, policy_file, action_metadata, reward, write_ok)
     IN /\ rl_policy' = upd.policy
        /\ policy_file' = upd.file
  /\ calls' = Append(calls, PolicyCall("update", req.trace_id, action_metadata.context_key,
                                       action_metadata.action, ""))
  /\ requests_made' = requests_made + 1
  /\ pc' = "idle"
  /\ UNCHANGED <<req, rl_action, action_metadata, feedback_records, result, policy_unchanged>>

\* FeedbackCollector.collect_feedback for the trace of an earlier
\* composition: the update is made with the metadata built on the spot.
\* Feedback that _validate_feedback refuses is answered with False before
\* anything is stored; result holds the argument and the value returned.
PCollectFeedback(trace_id, feedback_data, write_ok) ==
  /\ pc = "idle"
  /\ Len(calls) < MaxPolicyCalls
  /\ trace_id \in 1 .. requests_made
  /\ IF ~_validate_feedback(feedback_data)
     THEN /\ result' = [feedback_data |-> feedback_data, returned |-> FALSE]
          /\ UNCHANGED <<rl_policy, policy_file, feedback_records, calls>>
     ELSE LET feedback_record == FeedbackRecord(trace_id, feedback_data)
              reward == _calculate_feedback_reward(feedback_record.rating,
                                                   feedback_record.long_comments)
              upd == update_policy(rl_policy, policy_file, FeedbackMetadata, reward, write_ok)
          IN /\ feedback_records' = Append(feedback_records, feedback_record)
             /\ rl_policy' = upd.policy
             /\ policy_file' = upd.file
             /\ calls' = Append(calls, PolicyCall("feedback", trace_id,
                                                  FeedbackMetadata.context_key,
                                                  FeedbackMetadata.action, "collect_feedback"))
             /\ result' = [feedback_data |-> feedback_data, returned |-> TRUE]
  /\ UNCHANGED <<pc, req, rl_action, action_metadata, requests_made, policy_unchanged>>

\* Composer.update_with_feedback: the reward is calculated and logged.
PUpdateWithFeedback(trace_id, rating) ==
  /\ pc = "idle"
  /\ Len(calls) < MaxPolicyCalls
  /\ trace_id \in 1 .. requests_made
  /\ calls' = Append(calls, PolicyCall("feedback", trace_id, << >>, "", "update_with_feedback"))
  /\ result' = << >>
  /\ UNCHANGED <<rl_policy, policy_file, pc, req, rl_action, action_metadata,
                 requests_made, feedback_records, policy_unchanged>>

NextPolicy ==
  \/ \E r \in PolicyRequests, explore \in BOOLEAN, choice \in PolicyAction :
        PSelect(r, explore, choice)
  \/ \E outcome \in PolicyOutcomes, write_ok \in WriteOutcomes(rl_policy) :
        PUpdate(outcome, write_ok)
  \/ \E trace_id \in 1 .. MaxPolicyCalls, feedback_data \in RatedFeedback,
        write_ok \in WriteOutcomes(rl_policy) :
        PCollectFeedback(trace_id, feedback_data, write_ok)
  \/ \E trace_id \in 1 .. MaxPolicyCalls, rating \in FeedbackRatings :
        PUpdateWithFeedback(trace_id, rating)

SpecPolicy == InitPolicy /\ [][NextPolicy]_vars

(***************************************************************************)
(* Compositions and calls of collect_feedback with feedback of every kind, *)
(* accepted and refused (SpecFeedback), on a policy constructed without a  *)
(* file, one update before its first snapshot, or loaded from a snapshot.  *)
(***************************************************************************)
FeedbackStarts ==
  LET good == CHOOSE o \in PolicyOutcomes : o.grounded
      file == EarlierProcess(save_period).file
  IN { InProcess(0, good), InProcess(save_period - 1, good),
       [policy |-> _load_policy(file[1]), file |-> file] }

InitFeedback ==
  /\ InitPolicy
  /\ \E start \in FeedbackStarts : rl_policy = start.policy /\ policy_file = start.file
  /\ error = ""

NextFeedback ==
  \/ \E r \in PolicyRequests, explore \in BOOLEAN, choice \in PolicyAction :
        PSelect(r, explore, choice)
  \/ \E outcome \in PolicyOutcomes, write_ok \in WriteOutcomes(rl_policy) :
        PUpdate(outcome, write_ok)
  \/ \E trace_id \in 1 .. MaxPolicyCalls, feedback_data \in FeedbackInputs,
        write_ok \in WriteOutcomes(rl_policy) :
        PCollectFeedback(trace_id, feedback_data, write_ok)

SpecFeedback == InitFeedback /\ [][NextFeedback]_vars

(***************************************************************************)
(* Claims about the calls on the policy object.                            *)
(***************************************************************************)
\* The call a step has just made, once the log of calls has grown.
LastCall(log) == log[Len(log)]

\* The select_action call of the composition with this trace id.
SelectOf(log, trace_id) ==
  LET i == CHOOSE i \in DOMAIN log : log[i].op = "select" /\ log[i].trace_id = trace_id
  IN log[i]

\* C11: feedback submitted for trace T applies its reward update to the
\* Q-value of the (ContextKey, Strategy) pair that select returned for T and
\* to no other entry: a step that handles feedback leaves the Q-table as a
\* TD update of that pair, by some reward, leaves it.
C11_FeedbackCreditsSelectedPair ==
  [][ (Len(calls') = Len(calls) + 1 /\ LastCall(calls').op = "feedback")
      => LET selected == SelectOf(calls, LastCall(calls').trace_id)
             current_q == QValue(rl_policy.q_values, selected.context_key, selected.action)
         IN \E reward \in 0 .. 1000 :
               rl_policy'.q_values =
                 QStore(rl_policy.q_values, selected.context_key, selected.action,
                        TDUpdate(current_q, reward)) ]_vars

\* The content-based selector has replaced the strategy of the policy in
\* the call of compose that is running.
Overridden == \E i \in DOMAIN calls : calls[i].op = "select_template"

\* C12: when the strategy chosen by the policy is overridden in SELECT by
\* the content-based selector, no Q-value, reward-history or action-history
\* entry changes because of that request: once overridden, no step of the
\* call changes them.
C12_OverrideNotFedBack ==
  [][ Overridden => /\ rl_policy'.q_values = rl_policy.q_values
                    /\ rl_policy'.reward_history = rl_policy.reward_history
                    /\ rl_policy'.action_history = rl_policy.action_history ]_vars

\* A step is a call of select_action for a context key that the Q-table
\* does not hold.
SelectsUnseen ==
  /\ Len(calls') = Len(calls) + 1
  /\ LastCall(calls').op = "select"
  /\ LastCall(calls').context_key \notin DOMAIN rl_policy.q_values

\* C13: for a context whose ContextKey is absent from the Q-table, select
\* returns EXPLAIN with the selection method "exploitation", unless it
\* explores: then the method is "exploration" and the strategy the one drawn.
C13_UnseenContextExplain ==
  [][ SelectsUnseen => \/ /\ LastCall(calls').method = "exploitation"
                          /\ LastCall(calls').action = "explain"
                       \/ LastCall(calls').method = "exploration" ]_vars

\* C13 as stated: EXPLAIN with the selection method "exploitation-default".
C13_AsStated ==
  [][ SelectsUnseen => /\ LastCall(calls').action = "explain"
                       /\ LastCall(calls').method = "exploitation-default" ]_vars

\* C13 witness: an exploiting select_action has just returned EXPLAIN for a
\* context key it created in the Q-table.
C13_Witness ==
  /\ Len(calls) = 1
  /\ calls[1].op = "select" /\ calls[1].method = "exploitation"
  /\ calls[1].action = "explain"
  /\ calls[1].context_key \in DOMAIN rl_policy.q_values
  /\ rl_policy.q_values[calls[1].context_key] = <<[action |-> "explain", q |-> 0]>>

RewardScores == {0, 250, 500, 750, 1000}
RewardTimes == {10, 75, 200, 1000}
RewardFeedback ==
  {NoFeedback, IncomparableFeedback} \cup {Feedback(rating) : rating \in -1 .. 6}

\* The texts verify_grounding is called on.
\* "is a that and"
T_stop == {"is", "a", "that", "and"}
\* "yoga knowledge meditation cooking recipes"
T_spread == {"yoga", "knowledge", "meditation", "cooking", "recipes"}
\* "yoga peace cooking recipes"
T_pair == {"yoga", "peace", "cooking", "recipes"}
\* thirteen content tokens, three of them in the chunk about yoga
T_thin ==
  {"yoga", "brings", "peace", "cooking", "recipes", "involve", "various", "ingredients",
   "compare", "karma", "versus", "dharma", "like"}
\* a Devanagari text with one stopword and the Latin word "karma"
T_hindi == {"dv_72", "dv_73", "dv_74", "dv_15", "karma"}

VerifyTexts ==
  {A_empty.text, T_stop, A_meditation.text, A_cooking.text, T_spread, T_pair, T_thin, T_hindi}

\* a chunk of Devanagari text with the Latin word "meditation"
K_hindi == Chunk({"dv_72", "dv_73", "dv_74", "meditation"}, {"gita"})

VerifyChunks == {K_meditation, K_yoga, K_blank, K_none, K_hindi}

ChunkLists == UNION {[1 .. n -> VerifyChunks] : n \in 0 .. MaxChunks}

InitFunctions ==
  /\ rl_policy = FreshPolicy
  /\ policy_file = << >>
  /\ gru_available = FALSE
  /\ traces = << >>
  /\ feedback_records = << >>
  /\ requests_made = 0
  /\ pc = "idle"
  /\ req = NoRequest
  /\ rl_action = ""
  /\ action_metadata = NoMetadata
  /\ template_id = ""
  /\ final_text = {}
  /\ grounding_result = EmptyGrounding("")
  /\ grounding_attempts = 0
  /\ result = << >>
  /\ error = ""
  /\ verify_calls = 0
  /\ calls = << >>
  /\ tpc = [t \in Threads |-> "start"]
  /\ tlocal = [t \in Threads |-> NoLocal]

\* reward = calculate_reward(composition_result, feedback)
CalculateReward(grounded, grounding_score, composition_time_ms, feedback) ==
  /\ pc = "idle"
  /\ pc' = "returned"
  /\ result' = [grounded |-> grounded,
                grounding_score |-> grounding_score,
                composition_time_ms |-> composition_time_ms,
                feedback |-> feedback,
                rl_reward |-> calculate_reward(grounded, grounding_score,
                                               composition_time_ms, feedback)]
  /\ calls' = <<Call("calculate_reward", "", grounded)>>
  /\ req' = NoRequest
  /\ final_text' = {}
  /\ grounding_result' = EmptyGrounding("")
  /\ UNCHANGED <<rl_policy, policy_file, gru_available, feedback_records, traces, requests_made,
                 rl_action, action_metadata, template_id, grounding_attempts, error,
                 verify_calls, tpc, tlocal>>

\* grounding_result = verify_grounding(generated_text, top_chunks)
VerifyGrounding(generated_text, top_chunks) ==
  /\ pc = "idle"
  /\ pc' = "returned"
  /\ final_text' = generated_text
  /\ req' = [NoRequest EXCEPT !.top_chunks = top_chunks]
  /\ grounding_result' = verify_grounding(generated_text, top_chunks)
  /\ result' = << >>
  /\ calls' = <<Call("verify_grounding", "", grounding_result'.grounded)>>
  /\ UNCHANGED <<rl_policy, policy_file, gru_available, feedback_records, traces, requests_made,
                 rl_action, action_metadata, template_id, grounding_attempts, error,
                 verify_calls, tpc, tlocal>>

\* The same text is verified against the chunks and one more chunk; result
\* keeps what the call before returned.
VerifyWithChunkAdded(chunk) ==
  /\ pc = "returned"
  /\ calls[1].op \in {"verify_grounding", "add_chunk"}
  /\ Len(req.top_chunks) < MaxChunks
  /\ req' = [req EXCEPT !.top_chunks = Append(@, chunk)]
  /\ grounding_result' = verify_grounding(final_text, req'.top_chunks)
  /\ result' = grounding_result
  /\ calls' = <<Call("add_chunk", "", grounding_result'.grounded)>>
  /\ UNCHANGED <<rl_policy, policy_file, gru_available, feedback_records, traces, requests_made, pc,
                 rl_action, action_metadata, template_id, final_text, grounding_attempts,
                 error, verify_calls, tpc, tlocal>>

NextFunctions ==
  \/ \E grounded \in BOOLEAN, grounding_score \in RewardScores,
        composition_time_ms \in RewardTimes, feedback \in RewardFeedback :
        CalculateReward(grounded, grounding_score, composition_time_ms, feedback)
  \/ \E generated_text \in VerifyTexts, top_chunks \in ChunkLists :
        VerifyGrounding(generated_text, top_chunks)
  \/ \E chunk \in VerifyChunks : VerifyWithChunkAdded(chunk)

SpecFunctions == InitFunctions /\ [][NextFunctions]_vars

\* The last call was of calculate_reward.
RewardCalculated == calls # << >> /\ calls[1].op = "calculate_reward"

\* C15: for every composition result (grounded or not, any grounding score
\* in [0, 1], any composition time) and every feedback (absent, or any
\* rating), calculate_reward returns a value in [0, 1].
C15_RewardInUnitInterval ==
  RewardCalculated => 0 <= result.rl_reward /\ result.rl_reward <= 1000

\* C15 witness: a grounded, fully scored, fast result with a rating of 5,
\* whose parts add up to 1.2, has the reward 1.
C15_Witness ==
  /\ RewardCalculated
  /\ result.grounded /\ result.grounding_score = 1000 /\ result.composition_time_ms < 50
  /\ result.feedback = Feedback(5)
  /\ result.rl_reward = 1000

\* verify_grounding has returned grounding_result for final_text and the
\* chunks of req.
VerifyReturned == calls # << >> /\ calls[1].op \in {"verify_grounding", "add_chunk"}

\* The content tokens of the candidate and of a chunk, and the union over
\* the chunks of what they share.
CandidateTokens == ContentTokens(final_text)
ChunkTokens(chunk) == IF chunk.text_none THEN {} ELSE ContentTokens(chunk.text)
SharedTokens ==
  UNION {CandidateTokens \cap ChunkTokens(req.top_chunks[i]) : i \in DOMAIN req.top_chunks}

\* C16: verify_grounding reports grounded exactly when the union over the
\* chunks of the content tokens shared with the candidate has at least 3
\* tokens and is at least 0.3 of the candidate's content tokens; a candidate
\* with at least 3 content tokens that are all in one chunk is grounded, one
\* that shares no content token with any chunk is not.
C16_GroundedExactlyWhen ==
  VerifyReturned =>
    /\ grounding_result.grounded <=>
         /\ Cardinality(SharedTokens) >= 3
         /\ Cardinality(SharedTokens) * 10 >= 3 * Cardinality(CandidateTokens)
    /\ ( /\ Cardinality(CandidateTokens) >= 3
         /\ \E i \in DOMAIN req.top_chunks : CandidateTokens \subseteq ChunkTokens(req.top_chunks[i]) )
       => grounding_result.grounded
    /\ SharedTokens = {} => ~grounding_result.grounded

\* C16 witness: a text is grounded by the tokens of two chunks together,
\* neither of which shares three tokens with it.
C16_Witness ==
  /\ VerifyReturned
  /\ grounding_result.grounded
  /\ \A i \in DOMAIN req.top_chunks :
        Cardinality(CandidateTokens \cap ChunkTokens(req.top_chunks[i])) < 3

\* C17: for every candidate text and chunk list, the result of
\* verify_grounding has 0 <= score <= 1 and 0 <= overlap_ratio <= 1.
C17_ScoreAndRatioInUnitInterval ==
  VerifyReturned =>
    /\ 0 <= grounding_result.score /\ grounding_result.score <= 1000
    /\ 0 <= grounding_result.overlap_ratio /\ grounding_result.overlap_ratio <= 1000

\* C17 witness: every content token of the text is shared, with two chunks
\* or more, so that the parts of the lexical score add up to more than 1,
\* and the score is 0.9 or more.
C17_Witness ==
  /\ VerifyReturned
  /\ grounding_result.overlap_ratio = 1000
  /\ Cardinality({i \in DOMAIN grounding_result.chunk_coverage :
                    grounding_result.chunk_coverage[i].overlap_count > 0}) > 1
  /\ grounding_result.score >= 900

\* The text is empty, the chunk list is empty or the text has no content
\* token.
DegenerateInput ==
  final_text = {} \/ req.top_chunks = << >> \/ CandidateTokens = {}

\* C18: verify_grounding called with an empty candidate text, an empty chunk
\* list or a candidate without content tokens returns grounded = false and
\* score = 0.0, and never raises: the call returns a result without the
\* message of an exception.
C18_DegenerateInputs ==
  (VerifyReturned /\ DegenerateInput) =>
    /\ ~grounding_result.grounded
    /\ grounding_result.score = 0
    /\ grounding_result.error \in {"Empty input", "No content tokens found"}

\* C18 witness: a text of stopwords only was verified against chunks one of
\* which has text.
C18_Witness ==
  /\ VerifyReturned
  /\ final_text # {} /\ CandidateTokens = {}
  /\ \E i \in DOMAIN req.top_chunks : ChunkTokens(req.top_chunks[i]) # {}
  /\ grounding_result.error = "No content tokens found"

\* The last call verified the text against the chunks of the call before
\* and one more chunk; result is what the call before returned.
ChunkAdded == calls # << >> /\ calls[1].op = "add_chunk"

\* C19: for a fixed candidate text, adding a chunk to the chunk list never
\* decreases the overlap_ratio returned by verify_grounding and never
\* removes a token from overlapping_tokens.
C19_AddingChunkMonotone ==
  ChunkAdded =>
    /\ grounding_result.overlap_ratio >= result.overlap_ratio
    /\ result.overlapping_tokens \subseteq grounding_result.overlapping_tokens

\* C19 witness: the chunk added shares tokens the chunks before did not
\* share, after a call that had found shared tokens.
C19_Witness ==
  /\ ChunkAdded
  /\ result.overlapping_tokens # {}
  /\ grounding_result.overlapping_tokens # result.overlapping_tokens
  /\ grounding_result.overlap_ratio > result.overlap_ratio

(***************************************************************************)
(* Claims about the trace log of compose.                                  *)
(***************************************************************************)
\* C20: every call of compose, whatever its outcome (grounded, ungrounded
\* after 3 attempts, or error fallback), appends exactly one trace record to
\* the trace log, and the record carries the trace id of the caller: when
\* the n-th call ends the log holds n records, the last with that trace id.
C20_OneTracePerCall ==
  pc \in {"returned", "raised"} =>
    /\ Len(traces) = requests_made + 1
    /\ traces[Len(traces)].trace_id = req.trace_id

\* C21: the result returned by compose carries the trace_id the caller
\* passed, when it is the dictionary assembled after the loop and when it is
\* the dictionary of the except handler.
C21_TraceIdEchoed ==
  pc = "returned" => result.trace_id = req.trace_id

\* C21 witness: the second call has returned the error dictionary with the
\* trace id of that call, after a first call that returned on the normal
\* path and logged its own.
C21_Witness ==
  /\ pc = "returned" /\ requests_made = 1
  /\ "error" \in DOMAIN result
  /\ Len(traces) = 1
  /\ result.trace_id = req.trace_id /\ result.trace_id # traces[1].trace_id

\* The construction of the policy has just ended in the handler of
\* _load_policy: the read of the policy file raised.
LoadFailed == calls = << >> /\ error = "Failed to load RL policy"

\* C22: a read of the policy file that fails leaves the policy in memory
\* (Q-table, counts, epsilon, totals, histories) exactly as it was before
\* the read, that is as __init__ set it; a failed write of the file changes
\* no attribute either (update_policy does not depend on the outcome of the
\* write).
C22_FailedReadLeavesPolicy ==
  LoadFailed => rl_policy = FreshPolicy

\* The positions in the log of this call of the collaborator calls op.
CallsOf(op) == {i \in DOMAIN calls : calls[i].op = op}

\* C23: a call of compose that returns the dictionary assembled after the
\* loop has made exactly one select_action and one update_policy call, in
\* the order select, last verification, reward and update, trace, return;
\* the reward passed to update_policy (the last entry of the reward history)
\* is the rl_reward of the result and of the trace record.
C23_SelectUpdateOrder ==
  (pc = "returned" /\ DoneHeld) =>
    /\ Cardinality(CallsOf("select")) = 1
    /\ Cardinality(CallsOf("update")) = 1
    /\ Cardinality(CallsOf("log")) = 1
    /\ CallsOf("verify") # {}
    /\ \A s \in CallsOf("select"), v \in CallsOf("verify"),
          a \in CallsOf("assemble"), u \in CallsOf("update"), l \in CallsOf("log") :
          s < v /\ v < a /\ a < u /\ u < l /\ l = Len(calls)
    /\ rl_policy.reward_history # << >>
    /\ rl_policy.reward_history[Len(rl_policy.reward_history)] = result.rl_reward
    /\ traces # << >>
    /\ traces[Len(traces)].rl_reward = result.rl_reward
    /\ result.rl_reward = calculate_reward(result.grounded, result.grounding_score,
                                           result.composition_time_ms, NoFeedback)

\* C23 witness: a call has returned after three verifications and an
\* update with a reward above zero that the result and the trace report.
C23_Witness ==
  /\ pc = "returned" /\ DoneHeld
  /\ Cardinality(CallsOf("verify")) = 3
  /\ result.rl_reward > 0
  /\ traces[Len(traces)].rl_reward = result.rl_reward
  /\ rl_policy.reward_history[Len(rl_policy.reward_history)] = result.rl_reward

\* The loop of this call has just improved the text of the attempt-1
\* fallback, after the second failed verification.
Improved == calls # << >> /\ calls[Len(calls)].op = "improve"

\* C24: after a second failed verification compose does not render again:
\* it calls improve_grounding on the current text, keeps the template id and
\* verifies the result; the text improve_grounding returns holds its input
\* and at most the one clause, which names at most 3 content tokens of the
\* chunks, none of them a word of the input.
C24_ImproveAfterSecondFailure ==
  /\ \A i \in CallsOf("verify") :
        (/\ Cardinality({j \in CallsOf("verify") : j <= i}) = 2
         /\ ~calls[i].grounded /\ i < Len(calls)) =>
           /\ calls[i + 1].op = "improve"
           /\ calls[i + 1].template = calls[i].template
           /\ i + 1 < Len(calls) =>
                 calls[i + 2].op = "verify" /\ calls[i + 2].template = calls[i].template
  /\ Improved =>
        LET input == ExtractiveText(req)
            top == Take(req.top_chunks, 2)
            source_content == UnionOf({ContentTokens(top[i].text) : i \in DOMAIN top})
        IN /\ input \subseteq final_text
           /\ \E named \in important_tokens(input, req.top_chunks) :
                 final_text \ input \subseteq ClarificationWords \cup named
           /\ \A named \in important_tokens(input, req.top_chunks) :
                 /\ Cardinality(named) <= 3
                 /\ named \subseteq source_content
                 /\ named \cap input = {}

\* A step is a call of select_action.
Selects == Len(calls') = Len(calls) + 1 /\ LastCall(calls').op = "select"

\* C25: select_action never changes the Q-table: the (context key, action)
\* entries and their values after the call are those before it, so that a
\* context key stays absent until an update for it is applied.
C25_SelectLeavesQTable ==
  [][ Selects => rl_policy'.q_values = rl_policy.q_values ]_vars

\* A step is a call of update_policy, made by a composition or by
\* FeedbackCollector.collect_feedback.
Updates ==
  /\ Len(calls') = Len(calls) + 1
  /\ \/ LastCall(calls').op = "update"
     \/ LastCall(calls').op = "feedback" /\ LastCall(calls').method = "collect_feedback"

\* The (context key, action) pairs a Q-table can hold.
QPairs(q_values) == (DOMAIN q_values) \X (PolicyAction \cup {"unknown"})

\* C26: update_policy(action_metadata, reward) sets the Q-value of the pair
\* named by the metadata to Q_old + 0.01 * (reward - Q_old), with Q_old = 0
\* for a pair not yet recorded, and leaves every other entry of the Q-table
\* and every selection count as it was.  The reward is the one the call
\* appended to the reward history.
C26_TDUpdateOfOnePair ==
  [][ Updates =>
        LET updated == LastCall(calls')
            reward == rl_policy'.reward_history[Len(rl_policy'.reward_history)]
            q_old == QValue(rl_policy.q_values, updated.context_key, updated.action)
        IN /\ QIndex(rl_policy'.q_values, updated.context_key, updated.action) # 0
           /\ QValue(rl_policy'.q_values, updated.context_key, updated.action)
                = q_old + (100 * reward - q_old) \div 100
           /\ DOMAIN rl_policy'.q_values = (DOMAIN rl_policy.q_values) \cup {updated.context_key}
           /\ \A pair \in QPairs(rl_policy'.q_values) :
                 pair # <<updated.context_key, updated.action>> =>
                   /\ (QIndex(rl_policy'.q_values, pair[1], pair[2]) = 0)
                        = (QIndex(rl_policy.q_values, pair[1], pair[2]) = 0)
                   /\ QValue(rl_policy'.q_values, pair[1], pair[2])
                        = QValue(rl_policy.q_values, pair[1], pair[2])
           /\ rl_policy'.action_counts = rl_policy.action_counts ]_vars

\* C26 witness: the update of collect_feedback has just recorded the pair
\* (default, unknown), not in the Q-table before, with 0.01 * reward, next
\* to the entry of an earlier composition.
C26_Witness ==
  /\ calls # << >> /\ LastCall(calls).op = "feedback"
  /\ <<"default">> \in DOMAIN rl_policy.q_values
  /\ Cardinality(DOMAIN rl_policy.q_values) = 2
  /\ rl_policy.reward_history # << >>
  /\ LET reward == rl_policy.reward_history[Len(rl_policy.reward_history)]
     IN /\ reward > 0
        /\ rl_policy.q_values[<<"default">>] = <<[action |-> "unknown", q |-> reward]>>

\* C27: an exploiting select_action for a context key the Q-table holds
\* returns an action recorded for that key whose Q-value is greater than or
\* equal to the Q-value of every other action recorded for it.
C27_ExploitationTakesBest ==
  [][ (/\ Selects
       /\ LastCall(calls').method = "exploitation"
       /\ LastCall(calls').context_key \in DOMAIN rl_policy.q_values) =>
        LET selected == LastCall(calls')
            row == rl_policy.q_values[selected.context_key]
        IN /\ \E i \in DOMAIN row : row[i].action = selected.action
           /\ \A i \in DOMAIN row :
                 row[i].q <= QValue(rl_policy.q_values, selected.context_key, selected.action) ]_vars

\* C27 witness: an exploiting select_action has just returned, of the two
\* actions recorded for the context key, the one with the higher Q-value.
C27_Witness ==
  /\ calls # << >> /\ LastCall(calls).op = "select"
  /\ LastCall(calls).method = "exploitation"
  /\ LET selected == LastCall(calls)
         row == rl_policy.q_values[selected.context_key]
     IN /\ Len(row) = 2
        /\ \E i \in DOMAIN row :
              /\ row[i].action # selected.action
              /\ 0 < row[i].q
              /\ row[i].q < QValue(rl_policy.q_values, selected.context_key, selected.action)

\* C28: in every state, after any sequence of select, update and feedback
\* calls, every action stored in the Q-table and in the action history is
\* one of explain, compare, example, extractive, and select_action returns
\* one of these four.
C28_ClosedActionSet ==
  /\ \A context_key \in DOMAIN rl_policy.q_values :
        \A i \in DOMAIN rl_policy.q_values[context_key] :
           rl_policy.q_values[context_key][i].action \in PolicyAction
  /\ \A i \in DOMAIN rl_policy.action_history :
        rl_policy.action_history[i] \in PolicyAction
  /\ \A i \in CallsOf("select") : calls[i].action \in PolicyAction

\* epsilon after the adaptation rule, for the reward history that holds the
\* reward just appended.
AdaptedEpsilon(epsilon, history) ==
  IF Len(history) < 10 THEN epsilon
  ELSE LET total == SumSeq(SubSeq(history, Len(history) - 9, Len(history)))
       IN IF total > 8000 THEN Max2(50000, (99 * epsilon) \div 100)
          ELSE IF total < 5000 THEN Min2(300000, (101 * epsilon) \div 100)
          ELSE epsilon

\* C29: an update changes epsilon by the adaptation rule only: with the
\* reward appended, a mean of the last 10 rewards above 0.8 gives
\* max(0.05, 0.99 * epsilon), one below 0.5 gives min(0.3, 1.01 * epsilon),
\* any other leaves epsilon; every other call leaves epsilon.  For a fresh
\* policy and for one loaded from a policy file.
C29_EpsilonAdaptationOnly ==
  [][ IF Updates
      THEN rl_policy'.epsilon = AdaptedEpsilon(rl_policy.epsilon, rl_policy'.reward_history)
      ELSE rl_policy'.epsilon = rl_policy.epsilon ]_vars

(***************************************************************************)
(* Calls on a policy whose histories are full (SpecHistory): the process   *)
(* has made history_maxlen compositions since it was constructed without a *)
(* policy file, or it is a later process that loaded the file written by   *)
(* the last of them.  The calls are those of SpecPolicy.                   *)
(***************************************************************************)
HistoryStarts ==
  LET good == CHOOSE o \in PolicyOutcomes : o.grounded
      full == InProcess(history_maxlen, good)
  IN { full, [policy |-> _load_policy(full.file[1]), file |-> full.file] }

InitHistory ==
  /\ \E start \in HistoryStarts : /\ rl_policy = start.policy
                                  /\ policy_file = start.file
  /\ gru_available = FALSE
  /\ traces = << >>
  /\ feedback_records = << >>
  /\ requests_made = 0
  /\ pc = "idle"
  /\ req = NoRequest
  /\ rl_action = ""
  /\ action_metadata = NoMetadata
  /\ template_id = ""
  /\ final_text = {}
  /\ grounding_result = EmptyGrounding("")
  /\ grounding_attempts = 0
  /\ result = << >>
  /\ error = ""
  /\ verify_calls = 0
  /\ calls = << >>
  /\ tpc = [t \in Threads |-> "start"]
  /\ tlocal = [t \in Threads |-> NoLocal]

SpecHistory == InitHistory /\ [][NextPolicy]_vars

\* C30: after any sequence of updates the reward history holds at most
\* 1000 entries.
C30_RewardHistoryBounded ==
  Len(rl_policy.reward_history) <= history_maxlen

\* C31: the policy file is written on every 10th update, counted from the
\* construction of a policy without a file, and on no other update, for
\* any number of updates: an update whose number is not a multiple of 10
\* leaves the file, one whose number is leaves it only when the write fails.
C31_SnapshotEveryTenth ==
  [][ (Updates /\ ~rl_policy.history_is_deque) =>
        IF Len(rl_policy'.reward_history) % 10 = 0
        THEN policy_file' \in {policy_file, <<PolicyData(rl_policy')>>}
        ELSE policy_file' = policy_file ]_vars

\* C32: a policy constructed from the file another policy wrote holds the
\* Q-table, counts, epsilon, totals and histories of the file, and the
\* compose calls made on it succeed as on the writer: none ends in the
\* except handler because get_policy_stats raised.
C32_SnapshotRoundTrip ==
  rl_policy.history_is_deque =>
    /\ (requests_made = 0 /\ pc = "idle") => PolicyData(rl_policy) = policy_file[1]
    /\ (pc = "returned" /\ "error" \in DOMAIN result) =>
          result.error # "sequence index must be integer, not 'slice'"

\* C33: calculate_reward returns the sum, clamped to [0, 1], of 0.4 if
\* grounded, 0.3 times the grounding score, one latency tier (0.2 below
\* 50 ms, else 0.1 below 100 ms, else 0) and, only when feedback is given,
\* 0.3 for a rating >= 4, 0.1 for a rating of 3, -0.1 for a rating <= 2; the
\* call leaves the policy and the policy file as they were constructed.
\* Ratings are numbers.
C33_RewardIsClampedSum ==
  (RewardCalculated /\ result.feedback.comparable) =>
    LET base == IF result.grounded THEN 400 ELSE 0
        score == (3 * result.grounding_score) \div 10
        tier == IF result.composition_time_ms < 50 THEN 200
                ELSE IF result.composition_time_ms < 100 THEN 100 ELSE 0
        rated == IF ~result.feedback.given THEN 0
                 ELSE IF result.feedback.rating >= 4 THEN 300
                 ELSE IF result.feedback.rating = 3 THEN 100 ELSE -100
        total == base + score + tier + rated
    IN /\ result.rl_reward = (IF total < 0 THEN 0 ELSE IF total > 1000 THEN 1000 ELSE total)
       /\ rl_policy = FreshPolicy /\ policy_file = << >>

\* C33 witness: an ungrounded result with score 0.5, composed in less than
\* 50 ms and rated 3, has the reward 0.15 + 0.2 + 0.1.
C33_Witness ==
  /\ RewardCalculated
  /\ ~result.grounded /\ result.grounding_score = 500 /\ result.composition_time_ms < 50
  /\ result.feedback = Feedback(3)
  /\ result.rl_reward = 450

\* A step that is a call of collect_feedback: result holds its argument and
\* the value it returned.
Collects ==
  /\ pc = "idle" /\ pc' = "idle"
  /\ "returned" \in DOMAIN result'
  /\ result' # result \/ feedback_records' # feedback_records

\* C34: collect_feedback called without a rating, with a rating that is not
\* an integer in 1..5 or with a type outside quality, relevance, accuracy,
\* helpfulness, overall returns False and leaves the feedback records, the
\* policy and the policy file unchanged; called with valid feedback it
\* returns True and appends exactly one record, that of the call.
C34_FeedbackValidation ==
  [][ Collects =>
        LET d == result'.feedback_data
            refused == \/ ~d.has_rating
                       \/ ~d.is_int \/ d.rating \notin 1 .. 5
                       \/ d.type \notin {"quality", "relevance", "accuracy",
                                         "helpfulness", "overall"}
        IN IF refused
           THEN /\ ~result'.returned
                /\ feedback_records' = feedback_records
                /\ rl_policy' = rl_policy /\ policy_file' = policy_file
           ELSE /\ result'.returned
                /\ Len(feedback_records') = Len(feedback_records) + 1
                /\ SubSeq(feedback_records', 1, Len(feedback_records)) = feedback_records
                /\ feedback_records'[Len(feedback_records')].rating = d.rating ]_vars

\* C34 witness: one valid feedback has been stored and updated the policy,
\* and a later call with the rating 6 has returned False.
C34_Witness ==
  /\ "returned" \in DOMAIN result /\ ~result.returned
  /\ result.feedback_data.rating = 6
  /\ Len(feedback_records) = 1 /\ feedback_records[1].rating = 5
  /\ \E i \in DOMAIN calls : calls[i].method = "collect_feedback"

\* The renderer of this call has failed: apply_template was called on
\* chunks its preparation of the template variables cannot read.
RenderFailed ==
  /\ TemplateFails(req.top_chunks)
  /\ \E i \in DOMAIN calls : calls[i].op = "render"

\* C35: a failure of the renderer during an attempt does not abort the
\* composition: the call ends by returning the dictionary assembled after
\* the loop, not the error fallback and not an exception.
C35_RenderFailureStillDone ==
  (pc \in {"returned", "raised"} /\ RenderFailed) =>
     /\ pc = "returned"
     /\ "grounding_attempts" \in DOMAIN result
     /\ "error" \notin DOMAIN result

\* C36: between the compose calls made on a policy constructed without a
\* policy file, the selections counted (total_actions) are as many as the
\* updates recorded in the action history, also after calls that ended in
\* the error fallback.
C36_SelectionsEqualUpdates ==
  (pc = "idle" /\ ~rl_policy.history_is_deque) =>
     rl_policy.total_actions = Len(rl_policy.action_history)

\* C37: every Q-value of the table, which every policy of these runs has
\* built up from the empty table by updates with rewards in [0, 1], lies in
\* [0, 1] (Q-values are in hundred-thousandths, rewards in thousandths).
C37_QValuesInUnitInterval ==
  /\ \A i \in DOMAIN rl_policy.reward_history :
        rl_policy.reward_history[i] >= 0 /\ rl_policy.reward_history[i] <= 1000
  /\ \A context_key \in DOMAIN rl_policy.q_values :
        \A i \in DOMAIN rl_policy.q_values[context_key] :
           /\ rl_policy.q_values[context_key][i].q >= 0
           /\ rl_policy.q_values[context_key][i].q <= 100000

\* C37 witness: an update has just been made on a fresh policy and left a
\* Q-value strictly inside the interval, above what one update can give.
C37_Witness ==
  /\ calls # << >> /\ LastCall(calls).op = "update"
  /\ ~rl_policy.history_is_deque
  /\ \E context_key \in DOMAIN rl_policy.q_values :
        \E i \in DOMAIN rl_policy.q_values[context_key] :
           /\ rl_policy.q_values[context_key][i].q > 1000
           /\ rl_policy.q_values[context_key][i].q < 100000

\* C38: after any sequence of compose calls and feedback submissions,
\* successful_actions <= total_actions, so that the success_rate of
\* get_policy_stats, successful_actions / max(1, total_actions), is at
\* most 1.
C38_SuccessRateInUnitInterval ==
  /\ rl_policy.successful_actions >= 0
  /\ rl_policy.successful_actions <= rl_policy.total_actions

\* The call in progress after the step, or just ended, was made with an
\* empty extractive_answer or without chunks.
RejectedCall ==
  /\ req'.trace_id # 0
  /\ req'.extractive_answer.text = {} \/ req'.top_chunks = << >>

\* C39: a compose call with an empty extractive_answer or without chunks
\* leaves the policy (Q-table, selection counts, total_actions, epsilon,
\* reward and action histories) and the policy file as they were at every
\* one of its steps, makes no select and no update, and returns the error
\* fallback with the message of the validation.
C39_RejectedCallLeavesPolicy ==
  [][ RejectedCall =>
        /\ rl_policy' = rl_policy
        /\ policy_file' = policy_file
        /\ \A i \in DOMAIN calls' : calls'[i].op \notin {"select", "update"}
        /\ pc' \notin {"select", "update"}
        /\ pc' = "returned" =>
              /\ "error" \in DOMAIN result'
              /\ result'.error = "extractive_answer and top_chunks are required" ]_vars

\* C39 witness: a call without chunks has returned the error fallback on a
\* policy that earlier calls have selected from.
C39_Witness ==
  /\ pc = "returned"
  /\ req.extractive_answer.text # {} /\ req.top_chunks = << >>
  /\ "error" \in DOMAIN result
  /\ result.error = "extractive_answer and top_chunks are required"
  /\ requests_made >= 1 /\ rl_policy.total_actions >= 1

\* C40: a compose call for a language code outside EN and HI never ends in
\* the error fallback because of its language code: the error of a
\* returned result is never the KeyError of a template lookup by that code.
C40_UnknownLanguageUsesEN ==
  (pc = "returned" /\ req.lang \notin {"EN", "HI"}) =>
     ~("error" \in DOMAIN result /\ result.error = req.lang)

====
